---------------------------- MODULE Spec2Model ----------------------------
(***************************************************************************)
(* A model of sandbox2's ptrace monitor (PtraceMonitor::Run and the        *)
(* handlers it dispatches to, monitor_ptrace.cc), together with the part   *)
(* of the Linux ptrace/waitpid interface the monitor talks to and the      *)
(* external threads that request a kill, a stack dump or a new deadline.   *)
(***************************************************************************)
EXTENDS Integers, Sequences, FiniteSets, TLC

(***************************************************************************)
(* Bounds of the model.                                                    *)
(***************************************************************************)
\* Spontaneous ptrace stops the sandboxee produces in one run.
MaxStops == 2
\* The requests the other threads make in a run.
MaxRequests == 2
\* The wall clock ticks 0..MaxTime.
MaxTime == 1
\* The thread ids the sandboxee uses while the monitor attaches to it
MaxTasks == 3
\* The seconds the clock runs while the monitor attaches
MaxAttachTime == 3

(***************************************************************************)
(* Program constants.                                                      *)
(***************************************************************************)
SIGTRAP == 5
SIGABRT == 6
SIGKILL == 9
SIGUSR1 == 10
SIGSTOP == 19
SIGTSTP == 20
SIGTTIN == 21
SIGTTOU == 22
SIGSYS == 31

PTRACE_EVENT_FORK == 1
PTRACE_EVENT_VFORK == 2
PTRACE_EVENT_CLONE == 3
PTRACE_EVENT_EXEC == 4
PTRACE_EVENT_VFORK_DONE == 5
PTRACE_EVENT_EXIT == 6
PTRACE_EVENT_SECCOMP == 7
PTRACE_EVENT_STOP == 128

ECHILD == 10
EINTR == 4

\* sapi::cpu::Architecture: kUnknown .. kMax, the host being x86-64.
kUnknown == 0
kX8664 == 1
kX86 == 2
kMax == 5

NR_read == 0
NR_clone == 56
NR_fork == 57
NR_vfork == 58
NR_execve == 59
NR_execveat == 322
NR_clone3 == 435

\* The main PID of the sandboxee and one more traced task of its tree.
main_pid == 1
other_pid == 2
Pids == {main_pid, other_pid}

NoSyscall == -1

\* The thread ids of the sandboxee at attach time: the main PID's is its own.
Tids == 1..MaxTasks

\* absl::Seconds(2): the budget of InitPtraceAttach.
kAttachBudget == 2

(***************************************************************************)
(* Wait statuses are the raw integers waitpid() and PTRACE_GETEVENTMSG     *)
(* hand out; the W* macros decode them.                                    *)
(***************************************************************************)
W_EXITCODE(ret, sig) == ret * 256 + sig
W_STOPCODE(sig) == sig * 256 + 127
W_EVENT(sig, event) == event * 65536 + sig * 256 + 127
W_CONTINUED == 65535

WTERMSIG(status) == status % 128
WEXITSTATUS(status) == (status \div 256) % 256
WSTOPSIG(status) == (status \div 256) % 256
WIFEXITED(status) == WTERMSIG(status) = 0
WIFSIGNALED(status) == WTERMSIG(status) # 0 /\ WTERMSIG(status) # 127
WIFSTOPPED(status) == status % 256 = 127
WIFCONTINUED(status) == status = W_CONTINUED
WPTRACEEVENT(x) == (x \div 65536) % 256

(***************************************************************************)
(* Result.                                                                 *)
(***************************************************************************)
\* A reason code is a number (exit status, signal, syscall number) or one
\* of the enumerated sub-reasons of Result::ReasonCodeEnum.
Code(n) == [sub |-> "NONE", n |-> n]
Sub(s) == [sub |-> s, n |-> 0]

UnsetResult ==
  [final_status |-> "UNSET", reason_code |-> Code(0), stack_trace |-> <<>>,
   syscall |-> NoSyscall, regs |-> FALSE]

(***************************************************************************)
(* Configuration: what the monitor borrows from Executor, Policy and the   *)
(* command-line flags.  It does not change during a run.                   *)
(***************************************************************************)
\* The five collect-stack-trace flags of Policy.  One run reads the flag
\* of its final status and collect_stacktrace_on_exit_, so the flags of the
\* abnormal ends are switched together.
Policy(on_exit, others) ==
  [collect_stacktrace_on_exit_ |-> on_exit,
   collect_stacktrace_on_signal_ |-> others,
   collect_stacktrace_on_timeout_ |-> others,
   collect_stacktrace_on_kill_ |-> others,
   collect_stacktrace_on_violation_ |-> others]

Config(pre_execve, policy, log_file, permit, log_all, proxy) ==
  [enable_sandboxing_pre_execve_ |-> pre_execve,
   policy_ |-> policy,
   log_file_ |-> log_file,
   permit_all |-> permit,
   log_all_stack_traces |-> log_all,
   network_proxy_server_ |-> proxy,
   libunwind_sbox_for_pid_ |-> 0,
   has_namespace |-> TRUE]

\* Four configurations that between them give every setting each of its
\* values, and the stack traces of an exit with and without the others.
Configs ==
  { Config(TRUE, Policy(FALSE, TRUE), FALSE, FALSE, FALSE, FALSE),
    Config(FALSE, Policy(FALSE, FALSE), TRUE, FALSE, FALSE, FALSE),
    Config(TRUE, Policy(TRUE, TRUE), FALSE, TRUE, FALSE, TRUE),
    Config(TRUE, Policy(TRUE, FALSE), FALSE, FALSE, TRUE, FALSE) }

VARIABLES
  cfg,                          \* the configuration of this run
  pc,                           \* where PtraceMonitor::Run stands
  result_,                      \* MonitorBase::result_
  set_calls,                    \* calls of SetExitStatusCode so far
  timed_out_, external_kill_, network_violation_, should_dump_stack_,
  wait_for_execve_,
  syscalls_in_progress_,        \* pid -> syscall nr, NoSyscall when absent
  sandboxee_exited,             \* the local of Run
  statuses_, last_errno_,       \* PidWaiter
  external_kill_request_flag_, dump_stack_request_flag_,
  violation_occurred_, deadline_millis_,
  now,                          \* the wall clock
  task,                         \* the kernel's view of each traced task
  quiescent,                    \* the sandboxee sleeps through the run
  nstops, nreqs,           \* what the bounds count
  last,                         \* the wait status the main loop dispatched last
  calls,                        \* Notify hooks and ptrace/kill requests of the last step
  hist,                         \* what the claims need to remember of the run
  setup_notification_,          \* times setup_notification_.Notify() ran
  attach,                       \* InitPtraceAttach and the sandboxee's threads
  unwind                        \* the unwinder: a call of it and its result

vars ==
  << cfg, pc, result_, set_calls, timed_out_, external_kill_,
     network_violation_, should_dump_stack_, wait_for_execve_,
     syscalls_in_progress_, sandboxee_exited, statuses_, last_errno_,
     external_kill_request_flag_, dump_stack_request_flag_,
     violation_occurred_, deadline_millis_, now, task, quiescent, nstops, nreqs,
     last, calls, hist, setup_notification_, attach, unwind >>

(***************************************************************************)
(* The handlers, as functions of the monitor's own state m                 *)
(*   [result_, set_calls, sip, wfe, sds, calls]                            *)
(* (sip: syscalls_in_progress_, wfe: wait_for_execve_, sds:                *)
(* should_dump_stack_, calls: the requests the handler made) and of what   *)
(* the kernel and Notify answer, the record o                              *)
(*   [gem, fetch, nr, trace, stack].                                       *)
(***************************************************************************)
Call(m, op, pid, a, x) ==
  [m EXCEPT !.calls = Append(@, [op |-> op, pid |-> pid, a |-> a, x |-> x])]

\* MonitorBase::SetExitStatusCode: the first assignment wins.
SetExitStatusCode(m, final_status, reason_code) ==
  [m EXCEPT !.set_calls = @ + 1,
            !.result_ = IF @.final_status = "UNSET"
                          THEN [@ EXCEPT !.final_status = final_status,
                                         !.reason_code = reason_code]
                          ELSE @]

\* MonitorBase::ShouldCollectStackTrace.
ShouldCollectStackTrace(status) ==
  CASE status = "EXTERNAL_KILL" -> cfg.policy_.collect_stacktrace_on_kill_
    [] status = "TIMEOUT" -> cfg.policy_.collect_stacktrace_on_timeout_
    [] status = "SIGNALED" -> cfg.policy_.collect_stacktrace_on_signal_
    [] status = "VIOLATION" -> cfg.policy_.collect_stacktrace_on_violation_
    [] status = "OK" -> cfg.policy_.collect_stacktrace_on_exit_
    [] OTHER -> FALSE

ContinueProcess(m, pid, signo) == Call(m, "PTRACE_CONT", pid, signo, "")

StopProcess(m, pid, signo) == Call(m, "PTRACE_LISTEN", pid, signo, "")

CompleteSyscall(m, pid, signo) == Call(m, "PTRACE_SYSCALL", pid, signo, "")

\* A SetAdditionalResultInfo that does not ask the policy: C8 does not
\* hold of it.
SetAdditionalResultInfoAlways(m, pid, o) ==
  LET m2 == Call([m EXCEPT !.result_.regs = TRUE],
                 "GetAndLogStackTrace", pid, 0, "")
  IN IF o.stack # "ok" THEN m2
     ELSE [m2 EXCEPT !.result_.stack_trace = <<"frame">>]

SetAdditionalResultInfo(m, pid, o) ==
  LET m1 == [m EXCEPT !.result_.regs = TRUE]
  IN IF ~ShouldCollectStackTrace(m1.result_.final_status) THEN m1
     ELSE LET m2 == Call(m1, "GetAndLogStackTrace", pid, 0, "")
          IN IF o.stack # "ok" THEN m2
             ELSE [m2 EXCEPT !.result_.stack_trace = <<"frame">>]

\* A violation handler that lets the tracee go on: C9 does not hold of it.
ActionProcessSyscallViolationResumes(m, pid, nr, violation_type, o) ==
  LET m1 == Call(m, "EventSyscallViolation", pid, nr, violation_type)
      m2 == SetExitStatusCode(m1, "VIOLATION", Code(nr))
      m3 == [m2 EXCEPT !.result_.syscall = nr]
      m4 == SetAdditionalResultInfo(m3, pid, o)
  IN ContinueProcess(Call(m4, "SkipSyscallReturnValue", pid, nr, ""), pid, 0)

ActionProcessSyscallViolation(m, pid, nr, violation_type, o) ==
  LET m1 == Call(m, "EventSyscallViolation", pid, nr, violation_type)
      m2 == SetExitStatusCode(m1, "VIOLATION", Code(nr))
      m3 == [m2 EXCEPT !.result_.syscall = nr]
      m4 == SetAdditionalResultInfo(m3, pid, o)
  IN Call(m4, "SkipSyscallReturnValue", pid, nr, "")

IsActivelyMonitoring(m) == ~m.wfe

\* A SetActivelyMonitoring that leaves the monitor waiting: C29 does not
\* hold of it.
SetActivelyMonitoringNoop(m) == m

SetActivelyMonitoring(m) == [m EXCEPT !.wfe = FALSE]

\* An ActionProcessSyscall that lets every execveat pass unseen: C30 does
\* not hold of it.
ActionProcessSyscallExecveatFree(m, pid, nr, o) ==
  IF nr = NR_execveat
    THEN ContinueProcess(m, pid, 0)
    ELSE LET m1 == Call(m, "EventSyscallTrace", pid, nr, o.trace)
         IN IF o.trace = "kAllow" THEN ContinueProcess(m1, pid, 0)
            ELSE IF o.trace = "kInspectAfterReturn"
              THEN CompleteSyscall([m1 EXCEPT !.sip[pid] = nr], pid, 0)
            ELSE IF cfg.log_file_ THEN ContinueProcess(m1, pid, 0)
            ELSE IF cfg.permit_all THEN ContinueProcess(m1, pid, 0)
            ELSE ActionProcessSyscallViolation(m1, pid, nr,
                                               "kSyscallViolation", o)

ActionProcessSyscall(m, pid, nr, o) ==
  IF nr = NR_execveat /\ ~IsActivelyMonitoring(m)
    THEN ContinueProcess(m, pid, 0)
    ELSE LET m1 == Call(m, "EventSyscallTrace", pid, nr, o.trace)
         IN IF o.trace = "kAllow" THEN ContinueProcess(m1, pid, 0)
            ELSE IF o.trace = "kInspectAfterReturn"
              THEN CompleteSyscall([m1 EXCEPT !.sip[pid] = nr], pid, 0)
            ELSE IF cfg.log_file_ THEN ContinueProcess(m1, pid, 0)
            ELSE IF cfg.permit_all THEN ContinueProcess(m1, pid, 0)
            ELSE ActionProcessSyscallViolation(m1, pid, nr,
                                               "kSyscallViolation", o)

\* A seccomp handler that takes an unknown architecture for an error: C21
\* does not hold of it.
EventPtraceSeccompStrict(m, pid, event_msg, o) ==
  IF event_msg < kUnknown \/ event_msg > kMax
    THEN SetExitStatusCode(m, "INTERNAL_ERROR", Sub("FAILED_FETCH"))
  ELSE IF o.fetch # "ok"
    THEN IF o.fetch = "NotFound" THEN m
         ELSE SetExitStatusCode(m, "INTERNAL_ERROR", Sub("FAILED_FETCH"))
  ELSE IF event_msg # kX8664
    THEN ActionProcessSyscallViolation(m, pid, o.nr,
                                       "kArchitectureSwitchViolation", o)
  ELSE ActionProcessSyscall(m, pid, o.nr, o)

\* A seccomp handler that takes every failed fetch for an error: C22 does
\* not hold of it.
EventPtraceSeccompFetchStrict(m, pid, event_msg, o) ==
  IF event_msg < kUnknown \/ event_msg > kMax THEN m
  ELSE IF o.fetch # "ok"
    THEN SetExitStatusCode(m, "INTERNAL_ERROR", Sub("FAILED_FETCH"))
  ELSE IF event_msg # kX8664
    THEN ActionProcessSyscallViolation(m, pid, o.nr,
                                       "kArchitectureSwitchViolation", o)
  ELSE ActionProcessSyscall(m, pid, o.nr, o)

EventPtraceSeccomp(m, pid, event_msg, o) ==
  IF event_msg < kUnknown \/ event_msg > kMax THEN m
  ELSE IF o.fetch # "ok"
    THEN IF o.fetch = "NotFound" THEN m
         ELSE SetExitStatusCode(m, "INTERNAL_ERROR", Sub("FAILED_FETCH"))
  ELSE IF event_msg # kX8664
    THEN ActionProcessSyscallViolation(m, pid, o.nr,
                                       "kArchitectureSwitchViolation", o)
  ELSE ActionProcessSyscall(m, pid, o.nr, o)

\* A syscall-exit handler that takes every failed fetch for an error: C23
\* does not hold of it.
EventSyscallExitFetchStrict(m, pid, o) ==
  IF m.sip[pid] = NoSyscall
    THEN SetExitStatusCode(m, "INTERNAL_ERROR", Sub("FAILED_INSPECT"))
  ELSE IF o.fetch # "ok"
    THEN SetExitStatusCode(m, "INTERNAL_ERROR", Sub("FAILED_FETCH"))
  ELSE LET m1 == Call(m, "EventSyscallReturn", pid, m.sip[pid], "regs")
       IN ContinueProcess([m1 EXCEPT !.sip[pid] = NoSyscall], pid, 0)

EventSyscallExit(m, pid, o) ==
  IF m.sip[pid] = NoSyscall
    THEN SetExitStatusCode(m, "INTERNAL_ERROR", Sub("FAILED_INSPECT"))
  ELSE IF o.fetch # "ok"
    THEN IF o.fetch = "NotFound" THEN m
         ELSE SetExitStatusCode(m, "INTERNAL_ERROR", Sub("FAILED_FETCH"))
  ELSE LET m1 == Call(m, "EventSyscallReturn", pid, m.sip[pid], "regs")
       IN ContinueProcess([m1 EXCEPT !.sip[pid] = NoSyscall], pid, 0)

EventPtraceNewProcess(m, pid, event_msg) ==
  IF m.sip[pid] # NoSyscall
    THEN IF m.sip[pid] \notin {NR_clone, NR_clone3, NR_fork, NR_vfork}
           THEN SetExitStatusCode(m, "INTERNAL_ERROR", Sub("FAILED_INSPECT"))
           ELSE LET m1 == Call(m, "EventSyscallReturn", pid, m.sip[pid],
                               "event_msg")
                IN ContinueProcess([m1 EXCEPT !.sip[pid] = NoSyscall], pid, 0)
    ELSE ContinueProcess(m, pid, 0)

EventPtraceExec(m, pid, event_msg) ==
  IF ~IsActivelyMonitoring(m)
    THEN ContinueProcess(SetActivelyMonitoring(m), pid, 0)
  ELSE IF m.sip[pid] # NoSyscall
    THEN IF m.sip[pid] # NR_execve /\ m.sip[pid] # NR_execveat
           THEN SetExitStatusCode(m, "INTERNAL_ERROR", Sub("FAILED_INSPECT"))
           ELSE LET m1 == Call(m, "EventSyscallReturn", pid, m.sip[pid], "0")
                IN ContinueProcess([m1 EXCEPT !.sip[pid] = NoSyscall], pid, 0)
  ELSE ContinueProcess(m, pid, 0)

\* The attribution of the main PID's end in EventPtraceExit.
\* An attribution that does not know the external kill: C6 does not hold
\* of it.
ExitEventStatusNoKill(m, event_msg) ==
  IF network_violation_
    THEN SetExitStatusCode(m, "VIOLATION", Sub("VIOLATION_NETWORK"))
  ELSE IF timed_out_ THEN SetExitStatusCode(m, "TIMEOUT", Code(0))
  ELSE IF WIFEXITED(event_msg)
    THEN SetExitStatusCode(m, "OK", Code(WEXITSTATUS(event_msg)))
  ELSE SetExitStatusCode(m, "SIGNALED", Code(WTERMSIG(event_msg)))

\* An attribution that takes every exit for a regular one: C4 does not
\* hold of it.
ExitEventStatusRegular(m, event_msg) ==
  IF network_violation_
    THEN SetExitStatusCode(m, "VIOLATION", Sub("VIOLATION_NETWORK"))
  ELSE IF external_kill_ THEN SetExitStatusCode(m, "EXTERNAL_KILL", Code(0))
  ELSE IF timed_out_ THEN SetExitStatusCode(m, "TIMEOUT", Code(0))
  ELSE SetExitStatusCode(m, "OK", Code(WEXITSTATUS(event_msg)))

ExitEventStatus(m, event_msg) ==
  IF network_violation_
    THEN SetExitStatusCode(m, "VIOLATION", Sub("VIOLATION_NETWORK"))
  ELSE IF external_kill_ THEN SetExitStatusCode(m, "EXTERNAL_KILL", Code(0))
  ELSE IF timed_out_ THEN SetExitStatusCode(m, "TIMEOUT", Code(0))
  ELSE IF WIFEXITED(event_msg)
    THEN SetExitStatusCode(m, "OK", Code(WEXITSTATUS(event_msg)))
  ELSE SetExitStatusCode(m, "SIGNALED", Code(WTERMSIG(event_msg)))

\* An exit handler that attributes the exit of the main PID before it looks
\* for a seccomp kill: C33 does not hold of it.
EventPtraceExitSeccompLast(m, pid, event_msg, o) ==
  LET m0 == [m EXCEPT !.sip[pid] = NoSyscall]
      is_seccomp == WIFSIGNALED(event_msg) /\ WTERMSIG(event_msg) = SIGSYS
      log_stack_trace == cfg.log_all_stack_traces
  IN IF WIFEXITED(event_msg)
        /\ (~cfg.policy_.collect_stacktrace_on_exit_ \/ pid # main_pid)
       THEN ContinueProcess(m0, pid, 0)
     ELSE IF (is_seccomp \/ pid = main_pid \/ log_stack_trace)
             /\ o.fetch # "ok"
       THEN SetExitStatusCode(m0, "INTERNAL_ERROR", Sub("FAILED_FETCH"))
     ELSE IF pid = main_pid
       THEN ContinueProcess(
              SetAdditionalResultInfo(ExitEventStatus(m0, event_msg), pid, o),
              pid, 0)
     ELSE IF is_seccomp
       THEN ActionProcessSyscallViolation(m0, pid, o.nr,
                                          "kSyscallViolation", o)
     ELSE IF log_stack_trace
       THEN ContinueProcess(Call(m0, "GetAndLogStackTrace", pid, 0, ""),
                            pid, 0)
     ELSE ContinueProcess(m0, pid, 0)

\* EventPtraceExit under a policy whose collect_stacktrace_on_exit_ is
\* on_exit.
EventPtraceExitWith(on_exit, m, pid, event_msg, o) ==
  LET m0 == [m EXCEPT !.sip[pid] = NoSyscall]
      is_seccomp == WIFSIGNALED(event_msg) /\ WTERMSIG(event_msg) = SIGSYS
      log_stack_trace == cfg.log_all_stack_traces
  IN IF WIFEXITED(event_msg) /\ (~on_exit \/ pid # main_pid)
       THEN ContinueProcess(m0, pid, 0)
     ELSE IF (is_seccomp \/ pid = main_pid \/ log_stack_trace)
             /\ o.fetch # "ok"
       THEN SetExitStatusCode(m0, "INTERNAL_ERROR", Sub("FAILED_FETCH"))
     ELSE IF is_seccomp
       THEN ActionProcessSyscallViolation(m0, pid, o.nr,
                                          "kSyscallViolation", o)
     ELSE IF pid = main_pid
       THEN ContinueProcess(
              SetAdditionalResultInfo(ExitEventStatus(m0, event_msg), pid, o),
              pid, 0)
     ELSE IF log_stack_trace
       THEN ContinueProcess(Call(m0, "GetAndLogStackTrace", pid, 0, ""),
                            pid, 0)
     ELSE ContinueProcess(m0, pid, 0)

EventPtraceExit(m, pid, event_msg, o) ==
  EventPtraceExitWith(cfg.policy_.collect_stacktrace_on_exit_, m, pid,
                      event_msg, o)

\* A group-stop handler that leaves the task as it is: C11 does not hold
\* of it.
EventPtraceStopSilent(m, pid, stopsig) ==
  IF stopsig \notin {SIGSTOP, SIGTSTP, SIGTTIN, SIGTTOU}
    THEN ContinueProcess(m, pid, 0)
    ELSE m

EventPtraceStop(m, pid, stopsig) ==
  IF stopsig \notin {SIGSTOP, SIGTSTP, SIGTTIN, SIGTTOU}
    THEN ContinueProcess(m, pid, 0)
    ELSE StopProcess(m, pid, 0)

\* The in-monitor stack dump a DumpStack() request asks for.
DumpStackIfRequested(m, pid) ==
  IF pid = main_pid /\ m.sds /\ cfg.libunwind_sbox_for_pid_ = 0
     /\ cfg.has_namespace
    THEN [Call(m, "GetStackTrace", pid, 0, "") EXCEPT !.sds = FALSE]
    ELSE m

StateProcessStopped(m, pid, status, event_msg, o) ==
  LET stopsig == WSTOPSIG(status)
      is_syscall_exit == stopsig = SIGTRAP + 128
      event == WPTRACEEVENT(status)
  IN IF event = 0 /\ ~is_syscall_exit
       THEN ContinueProcess(Call(m, "EventSignal", pid, stopsig, ""),
                            pid, stopsig)
     ELSE IF o.gem # "ok"
       THEN IF o.gem = "ESRCH" THEN m
            ELSE SetExitStatusCode(m, "INTERNAL_ERROR", Sub("FAILED_GETEVENT"))
     ELSE LET m1 == DumpStackIfRequested(m, pid)
          IN IF is_syscall_exit THEN EventSyscallExit(m1, pid, o)
             ELSE CASE event \in {PTRACE_EVENT_FORK, PTRACE_EVENT_VFORK,
                                  PTRACE_EVENT_CLONE} ->
                         EventPtraceNewProcess(m1, pid, event_msg)
                    [] event = PTRACE_EVENT_VFORK_DONE ->
                         ContinueProcess(m1, pid, 0)
                    [] event = PTRACE_EVENT_EXEC ->
                         EventPtraceExec(m1, pid, event_msg)
                    [] event = PTRACE_EVENT_EXIT ->
                         EventPtraceExit(m1, pid, event_msg, o)
                    [] event = PTRACE_EVENT_STOP ->
                         EventPtraceStop(m1, pid, stopsig)
                    [] event = PTRACE_EVENT_SECCOMP ->
                         EventPtraceSeccomp(m1, pid, event_msg, o)
                    [] OTHER -> m1

(***************************************************************************)
(* The kernel: a traced task runs, sits in a ptrace stop, is a zombie      *)
(* whose termination status waits to be reaped, or is gone.                *)
(***************************************************************************)
RunningTask ==
  [st |-> "running", ws |-> 0, msg |-> 0, reported |-> FALSE,
   insys |-> FALSE, killed |-> FALSE]

GoneTask ==
  [st |-> "gone", ws |-> 0, msg |-> 0, reported |-> FALSE,
   insys |-> FALSE, killed |-> FALSE]

Stopped(tk, p) == tk[p].st = "stopped"

InExitStop(t) ==
  t.st = "stopped" /\ WPTRACEEVENT(t.ws) = PTRACE_EVENT_EXIT

\* The termination statuses a task ends with on its own.
ExitStatuses(p) ==
  IF p = main_pid
    THEN { W_EXITCODE(1, 0), W_EXITCODE(0, SIGABRT), W_EXITCODE(0, SIGSYS) }
    ELSE { W_EXITCODE(0, 0), W_EXITCODE(0, SIGSYS) }

\* The stops a running task can enter on its own: <<wait status, event msg>>.
\* The main task forks (while it has no child), execs and is signalled;
\* every task makes system calls and exits.  A task resumed by
\* PTRACE_SYSCALL is inside a system call: it reports the exit of that call
\* before any signal or group stop.
StopMenu(p, t) ==
  { <<W_EVENT(SIGTRAP, PTRACE_EVENT_EXIT), x>> : x \in ExitStatuses(p) }
  \cup (IF t.insys
          THEN { <<W_STOPCODE(SIGTRAP + 128), 0>> }
          ELSE { <<W_EVENT(SIGTRAP, PTRACE_EVENT_SECCOMP), a>> :
                   a \in IF p = main_pid THEN {kX8664, kX86, kMax + 1}
                         ELSE {kX8664} })
  \cup (IF p = main_pid
          THEN { <<W_EVENT(SIGTRAP, e), other_pid>> :
                   e \in IF task[other_pid].st # "gone" THEN {}
                         ELSE {PTRACE_EVENT_CLONE} }
               \cup { <<W_EVENT(SIGTRAP, PTRACE_EVENT_EXEC), main_pid>> }
               \cup (IF t.insys THEN {}
                     ELSE { <<W_STOPCODE(SIGUSR1), 0>>,
                            <<W_EVENT(SIGSTOP, PTRACE_EVENT_STOP), 0>> })
          ELSE {})

\* A fork or clone stop: the kernel has made and attached the new task.
NewProcess(s) ==
  WPTRACEEVENT(s[1]) \in {PTRACE_EVENT_FORK, PTRACE_EVENT_CLONE}

\* A continuation request (PTRACE_CONT, PTRACE_LISTEN, PTRACE_SYSCALL) on a
\* task: a task in its exit stop finishes exiting, any other stopped task
\* runs again; a task that is not stopped answers ESRCH and stays as it is,
\* and so does the task of a request that fails for another reason (EIO).
Resume(t, op) ==
  IF t.st # "stopped" THEN t
  ELSE IF InExitStop(t)
    THEN [t EXCEPT !.st = "zombie", !.ws = t.msg, !.msg = 0,
                   !.reported = FALSE, !.insys = FALSE]
  ELSE [RunningTask EXCEPT !.insys = (op = "PTRACE_SYSCALL"),
                           !.killed = t.killed]

IsContinuation(c) == c.op \in {"PTRACE_CONT", "PTRACE_LISTEN", "PTRACE_SYSCALL"}

RECURSIVE ApplyCalls(_, _)
ApplyCalls(tk, cs) ==
  IF cs = <<>> THEN tk
  ELSE LET c == Head(cs)
       IN ApplyCalls(IF IsContinuation(c) /\ c.x # "EIO"
                       THEN [tk EXCEPT ![c.pid] = Resume(@, c.op)]
                       ELSE tk,
                     Tail(cs))

\* The zombie a killed task leaves: it ends with the status of the exit it
\* was in, or by the SIGKILL.
Dead(t) ==
  [t EXCEPT !.st = "zombie",
            !.ws = IF InExitStop(t) THEN t.msg ELSE W_EXITCODE(0, SIGKILL),
            !.msg = 0, !.reported = FALSE, !.insys = FALSE]

\* kill(pid, SIGKILL): fails (ESRCH) once the task has been reaped.
KillTask(t) == IF t.st \in {"running", "stopped"}
                 THEN [t EXCEPT !.killed = TRUE] ELSE t

\* PTRACE_INTERRUPT: a running task enters a PTRACE_EVENT_STOP; a task
\* inside a system call is taken out of it and reports the exit of the call.
InterruptTask(t) ==
  IF t.st = "running"
    THEN [t EXCEPT !.st = "stopped",
                   !.ws = IF t.insys THEN W_STOPCODE(SIGTRAP + 128)
                          ELSE W_EVENT(SIGTRAP, PTRACE_EVENT_STOP),
                   !.msg = 0, !.reported = FALSE]
    ELSE t

(***************************************************************************)
(* PidWaiter.                                                              *)
(***************************************************************************)
Ready(tk, p) == tk[p].st \in {"stopped", "zombie"} /\ ~tk[p].reported

\* waitpid() hands out a status once: a zombie is reaped by it.
Reap(t) == IF t.st = "zombie" THEN GoneTask ELSE [t EXCEPT !.reported = TRUE]

Orders(S) ==
  { q \in [1..Cardinality(S) -> S] :
      \A i, j \in 1..Cardinality(S) : i # j => q[i] # q[j] }

\* RefillStatuses: the priority PID is polled first, then waitpid(-1) until
\* it answers 0 or -1.  A status of the main PID that becomes ready after
\* its poll is gathered behind the others.  A waitpid that finds nothing
\* ready may fail for a reason of its own (ECHILD, EINTR).  The outcomes
\* are records [statuses, last_errno, task].
RefillStatuses ==
  IF task[main_pid].st = "gone"
    THEN { [statuses |-> <<>>, last_errno |-> ECHILD, task |-> task] }
    ELSE LET R == { p \in Pids : Ready(task, p) }
             tk == [p \in Pids |-> IF p \in R THEN Reap(task[p]) ELSE task[p]]
             e == IF \A p \in Pids : tk[p].st = "gone" THEN ECHILD ELSE 0
             errnos == IF R = {} THEN {e, ECHILD, EINTR} ELSE {e}
         IN { [statuses |-> [i \in 1..Cardinality(R) |->
                               <<q[i], task[q[i]].ws>>],
               last_errno |-> x, task |-> tk] :
              q \in Orders(R), x \in errnos }

\* A Wait that reports the failed waitpid before the statuses gathered
\* ahead of it: C19 does not hold of it.
WaitAfterRefillFailureFirst(r) ==
  IF r.last_errno # 0
    THEN [ret |-> -1, status |-> 0, errno |-> r.last_errno,
          statuses |-> r.statuses, last_errno |-> 0, task |-> r.task]
  ELSE IF r.statuses = <<>>
    THEN [ret |-> 0, status |-> 0, errno |-> 0, statuses |-> <<>>,
          last_errno |-> 0, task |-> r.task]
  ELSE [ret |-> Head(r.statuses)[1], status |-> Head(r.statuses)[2],
        errno |-> 0, statuses |-> Tail(r.statuses),
        last_errno |-> 0, task |-> r.task]

\* PidWaiter::Wait: the outcomes are records
\* [ret, status, errno, statuses, last_errno, task].
WaitAfterRefill(r) ==
  IF r.statuses = <<>>
    THEN IF r.last_errno = 0
           THEN [ret |-> 0, status |-> 0, errno |-> 0, statuses |-> <<>>,
                 last_errno |-> 0, task |-> r.task]
           ELSE [ret |-> -1, status |-> 0, errno |-> r.last_errno,
                 statuses |-> <<>>, last_errno |-> 0, task |-> r.task]
    ELSE [ret |-> Head(r.statuses)[1], status |-> Head(r.statuses)[2],
          errno |-> 0, statuses |-> Tail(r.statuses),
          last_errno |-> r.last_errno, task |-> r.task]

Wait ==
  IF statuses_ = <<>> /\ last_errno_ = 0
    THEN { WaitAfterRefill(r) : r \in RefillStatuses }
    ELSE { WaitAfterRefill([statuses |-> statuses_, last_errno |-> last_errno_,
                            task |-> task]) }

(***************************************************************************)
(* What the kernel and Notify may answer to a handler.                     *)
(***************************************************************************)
Syscalls == {NR_read, NR_clone, NR_execve, NR_execveat}

TraceActions == {"kAllow", "kDeny", "kInspectAfterReturn"}

\* PTRACE_GETEVENTMSG on a task that is not in a ptrace stop answers ESRCH;
\* any request may fail for a reason of its own.
GemFailures(tk, p) ==
  IF Stopped(tk, p) THEN {"err"} ELSE {"ESRCH", "err"}

\* Regs::Fetch follows a PTRACE_GETEVENTMSG that found the task stopped: it
\* answers NotFound when a SIGKILL takes the task in between.
FetchFailures(tk, p) ==
  IF tk[p].killed THEN {"NotFound", "err"} ELSE {"err"}

NoAnswer ==
  [gem |-> "ok", fetch |-> "ok", nr |-> NR_read, trace |-> "kAllow",
   stack |-> "ok"]

\* The answers the handlers of a wait status consult: an answer that is
\* not asked for stays at its default.
Answers(tk, p, status) ==
  LET event == WPTRACEEVENT(status)
      oks == IF Stopped(tk, p) THEN {NoAnswer} ELSE {}
      gems == { [NoAnswer EXCEPT !.gem = g] : g \in GemFailures(tk, p) }
      fetches == { [o EXCEPT !.fetch = f] :
                     o \in oks, f \in FetchFailures(tk, p) }
  IN IF ~WIFSTOPPED(status) THEN {NoAnswer}
     ELSE IF WSTOPSIG(status) = SIGTRAP + 128
       THEN gems \cup fetches \cup oks
     ELSE IF event = 0 THEN {NoAnswer}
     ELSE IF event = PTRACE_EVENT_SECCOMP
       THEN gems \cup fetches
            \cup { [o EXCEPT !.nr = nr, !.trace = t, !.stack = k] :
                     o \in oks, nr \in Syscalls, t \in TraceActions,
                     k \in {"ok", "err"} }
     ELSE IF event = PTRACE_EVENT_EXIT
       THEN gems \cup fetches
            \cup { [o EXCEPT !.nr = nr, !.stack = k] :
                     o \in oks, nr \in Syscalls, k \in {"ok", "err"} }
     ELSE gems \cup oks

(***************************************************************************)
(* PtraceMonitor::Run.                                                     *)
(***************************************************************************)
NoStatus ==
  [pid |-> 0, status |-> 0, errno |-> 0, msg |-> 0, o |-> NoAnswer]

Mon ==
  [result_ |-> result_, set_calls |-> set_calls,
   sip |-> syscalls_in_progress_, wfe |-> wait_for_execve_,
   sds |-> should_dump_stack_, exited |-> sandboxee_exited, calls |-> <<>>]

Store(m) ==
  /\ result_' = m.result_
  /\ set_calls' = m.set_calls
  /\ syscalls_in_progress_' = m.sip
  /\ wait_for_execve_' = m.wfe
  /\ should_dump_stack_' = m.sds
  /\ sandboxee_exited' = m.exited

\* A RunInternal that runs the setup on the thread of its caller: C25 does
\* not hold of it.
RunThreadCaller == "starter"

\* RunInternal: Run, and with it every PTRACE_SEIZE, is executed by the
\* thread made for it.
RunThread == "monitor"

\* InitPtraceAttach before it is entered: the sandboxee has its main thread
\* alone, nothing is seized; the thread that called RunInternal waits for
\* the setup notification.
NotAttaching ==
  [apc |-> "idle",
   threads |-> [t \in Tids |-> IF t = main_pid THEN "alive" ELSE "none"],
   seized |-> {}, tasks |-> {}, todo |-> {}, tasks_left |-> {},
   tasks_attached |-> {}, retries |-> 0, clock |-> 0, deadline |-> 0,
   next_tid |-> main_pid + 1, tracer |-> "none", starter |-> "waiting",
   ended_live |-> FALSE, init_seized |-> FALSE, send_tries |-> 0,
   sends |-> 0]

\* The sandboxee sleeps and nothing of it is in flight: it ends only if the
\* monitor ends it.
Quiet ==
  /\ quiescent
  /\ task[main_pid] = RunningTask
  /\ \A p \in Pids : task[p].st \in {"running", "gone"}
  /\ statuses_ = <<>> /\ last_errno_ = 0
  /\ result_.final_status = "UNSET"
  /\ pc = "loop"

\* The monitor after its construction, before Run is entered.
MonitorIdle ==
  /\ pc = "start"
  /\ result_ = UnsetResult
  /\ set_calls = 0
  /\ timed_out_ = FALSE
  /\ external_kill_ = FALSE
  /\ network_violation_ = FALSE
  /\ should_dump_stack_ = FALSE
  /\ wait_for_execve_ = cfg.enable_sandboxing_pre_execve_
  /\ syscalls_in_progress_ = [p \in Pids |-> NoSyscall]
  /\ sandboxee_exited = FALSE
  /\ statuses_ = <<>>
  /\ last_errno_ = 0
  /\ external_kill_request_flag_ = TRUE
  /\ dump_stack_request_flag_ = TRUE
  /\ violation_occurred_ = FALSE
  /\ now = 0
  /\ deadline_millis_ = 0
  /\ task = [p \in Pids |-> IF p = main_pid THEN RunningTask ELSE GoneTask]
  /\ quiescent \in BOOLEAN
  /\ nstops = 0
  /\ nreqs = 0
  /\ last = NoStatus
  /\ calls = <<>>
  /\ hist = [kill_quiet |-> FALSE, timeout_quiet |-> FALSE,
             sigkill_sent |-> FALSE]
  /\ setup_notification_ = 0
  /\ attach = NotAttaching

\* No call of the unwinder is under way.
NotUnwinding == [op |-> "none"]

Init ==
  /\ cfg \in Configs
  /\ MonitorIdle
  /\ unwind = NotUnwinding

\* InitSetupSignals and InitPtraceAttach, by their outcome; the setup
\* notification is issued when Run returns or goes on to its main loop.
RunSetup ==
  /\ pc = "start"
  /\ setup_notification_' = setup_notification_ + 1
  /\ \E outcome \in {"ok", "FAILED_SIGNALS", "FAILED_PTRACE"} :
       /\ attach' = IF outcome = "ok"
                      THEN [attach EXCEPT !.tracer = RunThread] ELSE attach
       /\ IF outcome = "ok"
            THEN /\ pc' = "loop"
                 /\ UNCHANGED <<result_, set_calls>>
            ELSE /\ pc' = "done"
                 /\ LET m == SetExitStatusCode(Mon, "SETUP_ERROR",
                                               Sub(outcome))
                    IN result_' = m.result_ /\ set_calls' = m.set_calls
  /\ UNCHANGED << cfg, timed_out_, external_kill_, network_violation_,
                  should_dump_stack_, wait_for_execve_, syscalls_in_progress_,
                  sandboxee_exited, statuses_, last_errno_,
                  external_kill_request_flag_, dump_stack_request_flag_,
                  violation_occurred_, deadline_millis_, now, task, quiescent,
                  nstops, nreqs, last, calls, hist, unwind >>

\* A loop that never looks at the Result: C1 does not hold of it.
LoopConditionIgnoresResult == TRUE

\* The condition of the main loop.
LoopCondition == result_.final_status = "UNSET"

\* KillSandboxee: [ok, m].
KillSandboxee(m) ==
  IF task[main_pid].st = "gone"
    THEN [ok |-> FALSE,
          m |-> SetExitStatusCode(m, "INTERNAL_ERROR", Sub("FAILED_KILL"))]
    ELSE [ok |-> TRUE, m |-> m]

\* An InterruptSandboxee that fails without a status: C2 does not hold of it.
InterruptSandboxeeSilent(m) ==
  [ok |-> task[main_pid].st \notin {"zombie", "gone"}, m |-> m]

\* InterruptSandboxee: [ok, m].
InterruptSandboxee(m) ==
  IF task[main_pid].st \in {"zombie", "gone"}
    THEN [ok |-> FALSE,
          m |-> SetExitStatusCode(m, "INTERNAL_ERROR", Sub("FAILED_INTERRUPT"))]
    ELSE [ok |-> TRUE, m |-> m]

\* A deadline test that takes 0 for a deadline: C7 does not hold of it.
DeadlineDueAtZero == now >= deadline_millis_

\* The deadline has been hit: 0 stands for no deadline.
DeadlineDue == deadline_millis_ # 0 /\ now >= deadline_millis_

\* A monitor that never sees the kill request: C16 does not hold of it.
KillRequestedNever == FALSE

\* !external_kill_request_flag_.test_and_set(): a request has cleared the flag.
KillRequested == ~external_kill_request_flag_

\* A monitor that takes every turn for a stack dump request: C18 does not
\* hold of it.
DumpStackRequestedAlways == TRUE

\* !dump_stack_request_flag_.test_and_set(): a request has cleared the flag.
DumpStackRequested == ~dump_stack_request_flag_

\* The head of a turn of the main loop: the deadline, the stack dump
\* request, the external kill request and the network violation, in this
\* order; a failed KillSandboxee or InterruptSandboxee leaves the loop.
LoopHead ==
  /\ pc = "loop"
  /\ IF ~LoopCondition
       THEN /\ pc' = "post"
            /\ calls' = <<>>
            /\ last' = NoStatus
            /\ UNCHANGED <<result_, set_calls, timed_out_, external_kill_,
                           network_violation_, should_dump_stack_,
                           external_kill_request_flag_,
                           dump_stack_request_flag_, task, hist>>
       ELSE LET due == DeadlineDue
                k1 == IF due THEN KillSandboxee(Mon)
                      ELSE [ok |-> TRUE, m |-> Mon]
                dump == k1.ok /\ DumpStackRequested
                k2 == IF dump
                        THEN InterruptSandboxee([k1.m EXCEPT !.sds = TRUE])
                        ELSE k1
                kill == k2.ok /\ KillRequested
                k3 == IF kill THEN KillSandboxee(k2.m) ELSE k2
                net == /\ k3.ok /\ cfg.network_proxy_server_
                       /\ violation_occurred_ /\ ~network_violation_
                k4 == IF net THEN KillSandboxee(k3.m) ELSE k3
                t1 == IF due THEN KillTask(task[main_pid])
                      ELSE task[main_pid]
                t2 == IF dump THEN InterruptTask(t1) ELSE t1
                t3 == IF kill \/ net THEN KillTask(t2) ELSE t2
            IN /\ timed_out_' = (timed_out_ \/ due)
               /\ dump_stack_request_flag_' =
                    (dump_stack_request_flag_ \/ k1.ok)
               /\ external_kill_request_flag_' =
                    (external_kill_request_flag_ \/ k2.ok)
               /\ external_kill_' = (external_kill_ \/ kill)
               /\ network_violation_' = (network_violation_ \/ net)
               /\ result_' = k4.m.result_
               /\ set_calls' = k4.m.set_calls
               /\ should_dump_stack_' = k4.m.sds
               /\ task' = [task EXCEPT ![main_pid] = t3]
               /\ pc' = IF k4.ok THEN "wait" ELSE "post"
               /\ calls' = <<>>
               /\ last' = NoStatus
               /\ hist' = [hist EXCEPT
                             !.timeout_quiet = @ \/ (due /\ Quiet),
                             !.sigkill_sent =
                               @ \/ ((due \/ kill \/ net)
                                     /\ task[main_pid].st # "gone")]
  /\ UNCHANGED << cfg, wait_for_execve_, syscalls_in_progress_,
                  sandboxee_exited, statuses_, last_errno_, violation_occurred_,
                  deadline_millis_, now, quiescent, nstops, nreqs,
                  setup_notification_, attach, unwind >>

\* A ranking that puts the timeout before the external kill: C3 does not
\* hold of it.
SignaledStatusTimeoutFirst(m, status) ==
  IF network_violation_
    THEN SetExitStatusCode(m, "VIOLATION", Sub("VIOLATION_NETWORK"))
  ELSE IF timed_out_ THEN SetExitStatusCode(m, "TIMEOUT", Code(0))
  ELSE IF external_kill_ THEN SetExitStatusCode(m, "EXTERNAL_KILL", Code(0))
  ELSE SetExitStatusCode(m, "SIGNALED", Code(WTERMSIG(status)))

\* The status the main PID's death by a signal ends the run with.
SignaledStatus(m, status) ==
  IF network_violation_
    THEN SetExitStatusCode(m, "VIOLATION", Sub("VIOLATION_NETWORK"))
  ELSE IF external_kill_ THEN SetExitStatusCode(m, "EXTERNAL_KILL", Code(0))
  ELSE IF timed_out_ THEN SetExitStatusCode(m, "TIMEOUT", Code(0))
  ELSE SetExitStatusCode(m, "SIGNALED", Code(WTERMSIG(status)))

\* A loop body that takes every failure of waitpid for the loss of the
\* sandboxee: C24 does not hold of it.
LoopBodyAnyErrno(m, ret, status, errno, event_msg, o) ==
  IF ret = 0 THEN m
  ELSE IF ret = -1
    THEN SetExitStatusCode(m, "INTERNAL_ERROR", Sub("FAILED_CHILD"))
  ELSE IF WIFEXITED(status)
    THEN IF ret = main_pid
           THEN [(IF IsActivelyMonitoring(m)
                    THEN SetExitStatusCode(m, "OK", Code(WEXITSTATUS(status)))
                    ELSE SetExitStatusCode(m, "SETUP_ERROR",
                                           Sub("FAILED_MONITOR")))
                 EXCEPT !.exited = TRUE]
           ELSE m
  ELSE IF WIFSIGNALED(status)
    THEN IF ret = main_pid
           THEN [SignaledStatus(m, status) EXCEPT !.exited = TRUE]
           ELSE m
  ELSE IF WIFSTOPPED(status)
    THEN StateProcessStopped(m, ret, status, event_msg, o)
  ELSE m

\* A loop body that takes the death of the main PID by a signal for the
\* end of some other task: C26 does not hold of it.
LoopBodyDeathUnseen(m, ret, status, errno, event_msg, o) ==
  IF ret = 0 THEN m
  ELSE IF ret = -1
    THEN IF errno = ECHILD
           THEN SetExitStatusCode(m, "INTERNAL_ERROR", Sub("FAILED_CHILD"))
           ELSE m
  ELSE IF WIFEXITED(status)
    THEN IF ret = main_pid
           THEN [(IF IsActivelyMonitoring(m)
                    THEN SetExitStatusCode(m, "OK", Code(WEXITSTATUS(status)))
                    ELSE SetExitStatusCode(m, "SETUP_ERROR",
                                           Sub("FAILED_MONITOR")))
                 EXCEPT !.exited = TRUE]
           ELSE m
  ELSE IF WIFSIGNALED(status) THEN m
  ELSE IF WIFSTOPPED(status)
    THEN StateProcessStopped(m, ret, status, event_msg, o)
  ELSE m

\* A loop body that only logs a waitpid that fails with ECHILD: C31 does
\* not hold of it.
LoopBodyChildLossLogged(m, ret, status, errno, event_msg, o) ==
  IF ret = 0 THEN m
  ELSE IF ret = -1 THEN m
  ELSE IF WIFEXITED(status)
    THEN IF ret = main_pid
           THEN [(IF IsActivelyMonitoring(m)
                    THEN SetExitStatusCode(m, "OK", Code(WEXITSTATUS(status)))
                    ELSE SetExitStatusCode(m, "SETUP_ERROR",
                                           Sub("FAILED_MONITOR")))
                 EXCEPT !.exited = TRUE]
           ELSE m
  ELSE IF WIFSIGNALED(status)
    THEN IF ret = main_pid
           THEN [SignaledStatus(m, status) EXCEPT !.exited = TRUE]
           ELSE m
  ELSE IF WIFSTOPPED(status)
    THEN StateProcessStopped(m, ret, status, event_msg, o)
  ELSE m

\* The body of the main loop behind pid_waiter.Wait.
LoopBody(m, ret, status, errno, event_msg, o) ==
  IF ret = 0 THEN m
  ELSE IF ret = -1
    THEN IF errno = ECHILD
           THEN SetExitStatusCode(m, "INTERNAL_ERROR", Sub("FAILED_CHILD"))
           ELSE m
  ELSE IF WIFEXITED(status)
    THEN IF ret = main_pid
           THEN [(IF IsActivelyMonitoring(m)
                    THEN SetExitStatusCode(m, "OK", Code(WEXITSTATUS(status)))
                    ELSE SetExitStatusCode(m, "SETUP_ERROR",
                                           Sub("FAILED_MONITOR")))
                 EXCEPT !.exited = TRUE]
           ELSE m
  ELSE IF WIFSIGNALED(status)
    THEN IF ret = main_pid
           THEN [SignaledStatus(m, status) EXCEPT !.exited = TRUE]
           ELSE m
  ELSE IF WIFSTOPPED(status)
    THEN StateProcessStopped(m, ret, status, event_msg, o)
  ELSE m

LoopWait ==
  /\ pc = "wait"
  /\ \E w \in Wait :
       /\ last' = [NoStatus EXCEPT !.pid = w.ret, !.status = w.status,
                                   !.errno = w.errno]
       /\ statuses_' = w.statuses
       /\ last_errno_' = w.last_errno
       /\ task' = w.task
  /\ pc' = "dispatch"
  /\ UNCHANGED << cfg, result_, set_calls, timed_out_, external_kill_,
                  network_violation_, should_dump_stack_, wait_for_execve_,
                  syscalls_in_progress_, sandboxee_exited,
                  external_kill_request_flag_, dump_stack_request_flag_,
                  violation_occurred_, deadline_millis_, now, quiescent, nstops,
                  nreqs, calls, hist, setup_notification_, attach, unwind >>

LoopDispatch ==
  /\ pc = "dispatch"
  /\ \E o \in Answers(task, last.pid, last.status) :
       LET event_msg == IF last.pid \in Pids THEN task[last.pid].msg ELSE 0
           m == LoopBody(Mon, last.pid, last.status, last.errno, event_msg, o)
           tk == IF o.fetch = "NotFound"
                   THEN [task EXCEPT ![last.pid] = Dead(@)] ELSE task
       IN /\ Store(m)
          /\ calls' = m.calls
          /\ task' = ApplyCalls(tk, m.calls)
          /\ last' = [last EXCEPT !.msg = event_msg, !.o = o]
  /\ pc' = "loop"
  /\ UNCHANGED << cfg, timed_out_, external_kill_, network_violation_,
                  statuses_, last_errno_, external_kill_request_flag_,
                  dump_stack_request_flag_, violation_occurred_,
                  deadline_millis_, now, quiescent, nstops, nreqs, hist,
                  setup_notification_, attach, unwind >>

\* A close-out that never logs the stack traces: C32 does not hold of it.
LogStackTracesNever == FALSE

\* The run's close-out: a sandboxee that has not been seen to exit is
\* killed (unless its stack traces are to be logged) and waited for.
LogStackTraces ==
  result_.final_status # "OK" /\ cfg.log_all_stack_traces

PostLoop ==
  /\ pc = "post"
  /\ IF sandboxee_exited
       THEN pc' = "done" /\ UNCHANGED task
       ELSE /\ pc' = "shutdown"
            /\ task' = IF LogStackTraces THEN task
                       ELSE [task EXCEPT ![main_pid] = KillTask(@)]
  /\ UNCHANGED << cfg, result_, set_calls, timed_out_, external_kill_,
                  network_violation_, should_dump_stack_, wait_for_execve_,
                  syscalls_in_progress_, sandboxee_exited, statuses_,
                  last_errno_, external_kill_request_flag_,
                  dump_stack_request_flag_, violation_occurred_,
                  deadline_millis_, now, quiescent, nstops, nreqs, last, calls,
                  hist, setup_notification_, attach, unwind >>

\* One turn of the close-out loop, or its deadline.
Shutdown ==
  /\ pc = "shutdown"
  /\ \/ /\ pc' = "done"
        /\ UNCHANGED <<statuses_, last_errno_, task, last, calls>>
     \/ \E w \in Wait :
          LET stopped == w.ret > 0 /\ WIFSTOPPED(w.status)
              logged == IF stopped /\ LogStackTraces
                          THEN Call(Mon, "LogStackTraceOfPid", w.ret, 0, "")
                          ELSE Mon
              leave == \/ w.ret = -1
                       \/ /\ ~LogStackTraces /\ w.ret = main_pid
                          /\ (WIFSIGNALED(w.status) \/ WIFEXITED(w.status))
              exit_stop == stopped
                           /\ WPTRACEEVENT(w.status) = PTRACE_EVENT_EXIT
              m == IF leave \/ w.ret = 0 THEN Mon
                   ELSE IF exit_stop THEN ContinueProcess(logged, w.ret, 0)
                   ELSE logged
              tk == ApplyCalls(w.task, m.calls)
          IN /\ last' = [pid |-> w.ret, status |-> w.status,
                         errno |-> w.errno]
             /\ statuses_' = w.statuses
             /\ last_errno_' = w.last_errno
                   /\ calls' = m.calls
             /\ pc' = IF leave THEN "done" ELSE "shutdown"
             /\ task' = IF leave \/ w.ret = 0 \/ exit_stop \/ LogStackTraces
                          THEN tk
                          ELSE [tk EXCEPT ![main_pid] = KillTask(@)]
  /\ UNCHANGED << cfg, result_, set_calls, timed_out_, external_kill_,
                  network_violation_, should_dump_stack_, wait_for_execve_,
                  syscalls_in_progress_, sandboxee_exited,
                  external_kill_request_flag_, dump_stack_request_flag_,
                  violation_occurred_, deadline_millis_, now, quiescent, nstops,
                  nreqs, hist, setup_notification_, attach, unwind >>

(***************************************************************************)
(* The sandboxee and the kernel.                                           *)
(***************************************************************************)
\* The monitor reads what the other threads write once in a turn of its
\* loop: a request made later in a turn is read as one made at the head of
\* the next.  The sandboxee's stops are read by Wait alone.
AtHead == pc = "loop"

Live == pc \in {"loop", "shutdown"}

Dying == pc \notin {"start", "done"}

\* A running task enters a ptrace stop on its own.
KStop(p) ==
  /\ Live /\ ~quiescent /\ nstops < MaxStops
  /\ task[p].st = "running" /\ ~task[p].killed
  /\ \E s \in StopMenu(p, task[p]) :
       task' = [q \in Pids |->
                  IF q = p
                    THEN [task[p] EXCEPT !.st = "stopped", !.ws = s[1],
                                         !.msg = s[2], !.reported = FALSE]
                  ELSE IF NewProcess(s) /\ q = s[2] THEN RunningTask
                  ELSE task[q]]
  /\ nstops' = nstops + 1
  /\ UNCHANGED << cfg, pc, result_, set_calls, timed_out_, external_kill_,
                  network_violation_, should_dump_stack_, wait_for_execve_,
                  syscalls_in_progress_, sandboxee_exited, statuses_,
                  last_errno_, external_kill_request_flag_,
                  dump_stack_request_flag_, violation_occurred_,
                  deadline_millis_, now, quiescent, nreqs, last, calls, hist,
                  setup_notification_, attach, unwind >>

\* A killed task may still enter a PTRACE_EVENT_EXIT stop before it dies.
KExitStopKilled(p) ==
  /\ Dying
  /\ task[p].killed /\ task[p].st \in {"running", "stopped"}
  /\ ~InExitStop(task[p])
  /\ task' = [task EXCEPT ![p] =
                [@ EXCEPT !.st = "stopped",
                          !.ws = W_EVENT(SIGTRAP, PTRACE_EVENT_EXIT),
                          !.msg = W_EXITCODE(0, SIGKILL),
                          !.reported = FALSE, !.insys = FALSE]]
  /\ UNCHANGED << cfg, pc, result_, set_calls, timed_out_, external_kill_,
                  network_violation_, should_dump_stack_, wait_for_execve_,
                  syscalls_in_progress_, sandboxee_exited, statuses_,
                  last_errno_, external_kill_request_flag_,
                  dump_stack_request_flag_, violation_occurred_,
                  deadline_millis_, now, quiescent, nstops, nreqs, last, calls,
                  hist, setup_notification_, attach, unwind >>

\* A killed task dies: out of any stop, without a further request.
KDie(p) ==
  /\ Dying
  /\ task[p].killed /\ task[p].st \in {"running", "stopped"}
  /\ task' = [task EXCEPT ![p] = Dead(@)]
  /\ UNCHANGED << cfg, pc, result_, set_calls, timed_out_, external_kill_,
                  network_violation_, should_dump_stack_, wait_for_execve_,
                  syscalls_in_progress_, sandboxee_exited, statuses_,
                  last_errno_, external_kill_request_flag_,
                  dump_stack_request_flag_, violation_occurred_,
                  deadline_millis_, now, quiescent, nstops, nreqs, last, calls,
                  hist, setup_notification_, attach, unwind >>

(***************************************************************************)
(* The other threads of the executor.                                      *)
(***************************************************************************)
\* PtraceMonitor::Kill
Kill ==
  /\ AtHead /\ nreqs < MaxRequests
  /\ nreqs' = nreqs + 1
  /\ external_kill_request_flag_
  /\ external_kill_request_flag_' = FALSE
  /\ hist' = [hist EXCEPT !.kill_quiet = @ \/ Quiet]
  /\ UNCHANGED << cfg, pc, result_, set_calls, timed_out_, external_kill_,
                  network_violation_, should_dump_stack_, wait_for_execve_,
                  syscalls_in_progress_, sandboxee_exited, statuses_,
                  last_errno_, dump_stack_request_flag_, violation_occurred_,
                  deadline_millis_, now, task, quiescent, nstops, last, calls,
                  setup_notification_, attach, unwind >>

\* PtraceMonitor::DumpStack
DumpStack ==
  /\ AtHead /\ nreqs < MaxRequests
  /\ nreqs' = nreqs + 1
  /\ dump_stack_request_flag_
  /\ dump_stack_request_flag_' = FALSE
  /\ UNCHANGED << cfg, pc, result_, set_calls, timed_out_, external_kill_,
                  network_violation_, should_dump_stack_, wait_for_execve_,
                  syscalls_in_progress_, sandboxee_exited, statuses_,
                  last_errno_, external_kill_request_flag_, violation_occurred_,
                  deadline_millis_, now, task, quiescent, nstops, last, calls,
                  hist, setup_notification_, attach, unwind >>

\* PtraceMonitor::SetWallTimeLimit
SetWallTimeLimit(limit) ==
  /\ AtHead /\ nreqs < MaxRequests
  /\ nreqs' = nreqs + 1
  
  /\ deadline_millis_' = IF limit = 0 THEN 0 ELSE now + limit
  /\ deadline_millis_' # deadline_millis_
  /\ UNCHANGED << cfg, pc, result_, set_calls, timed_out_, external_kill_,
                  network_violation_, should_dump_stack_, wait_for_execve_,
                  syscalls_in_progress_, sandboxee_exited, statuses_,
                  last_errno_, external_kill_request_flag_,
                  dump_stack_request_flag_, violation_occurred_, now, task,
                  quiescent, nstops, last, calls, hist, setup_notification_,
                  attach, unwind >>

\* The network proxy server records a violation.
NetworkViolation ==
  /\ AtHead /\ nreqs < MaxRequests
  /\ nreqs' = nreqs + 1
  /\ cfg.network_proxy_server_ /\ ~violation_occurred_
  /\ violation_occurred_' = TRUE
  /\ UNCHANGED << cfg, pc, result_, set_calls, timed_out_, external_kill_,
                  network_violation_, should_dump_stack_, wait_for_execve_,
                  syscalls_in_progress_, sandboxee_exited, statuses_,
                  last_errno_, external_kill_request_flag_,
                  dump_stack_request_flag_, deadline_millis_, now, task,
                  quiescent, nstops, last, calls, hist, setup_notification_,
                  attach, unwind >>

\* The clock.
Tick ==
  /\ AtHead /\ now < MaxTime
  /\ now' = now + 1
  /\ UNCHANGED << cfg, pc, result_, set_calls, timed_out_, external_kill_,
                  network_violation_, should_dump_stack_, wait_for_execve_,
                  syscalls_in_progress_, sandboxee_exited, statuses_,
                  last_errno_, external_kill_request_flag_,
                  dump_stack_request_flag_, violation_occurred_,
                  deadline_millis_, task, quiescent, nstops, nreqs, last, calls,
                  hist, setup_notification_, attach, unwind >>

(***************************************************************************)
(* Run's setup in detail: InitSetupSignals, then InitPtraceAttach task by  *)
(* task while the sandboxee's threads come and go.  One clock unit is a    *)
(* second; the backoff sleeps (20 ms at most) are below its resolution.    *)
(***************************************************************************)
\* The retries InitPtraceAttach counts: it only uses std::min(10, retries).
MaxRetries == 2

Attaching == attach.apc \in {"list", "seize", "verify"}

\* sanitizer::GetListOfTasks: what /proc lists of the sandboxee.
ListOfTasks == {t \in Tids : attach.threads[t] # "none"}

\* PTRACE_SEIZE of one task, by the kernel's answers: an exiting task gives
\* EPERM, a task that is gone ESRCH, a live one is seized unless ptrace fails.
SeizeAnswers(t) ==
  CASE attach.threads[t] = "none" -> {"ESRCH"}
    [] attach.threads[t] = "exiting" -> {"EPERM"}
    [] OTHER -> {"ok", "EIO"}

\* The deadline test once it is correct for the log line below it
\* ("Attaching to sandboxee timed out"): the budget is used up.
AttachTimedOutWhenLate(a) == a.clock >= a.deadline

\* The test that gives up on the tasks left: absl::Now() < deadline.
AttachTimedOut(a) == a.clock < a.deadline

\* The end of Run's setup: the notification, and the Result if it failed.
SetupEnds(failure) ==
  /\ setup_notification_' = setup_notification_ + 1
  /\ IF failure = "ok"
       THEN /\ pc' = "loop"
            /\ UNCHANGED <<result_, set_calls>>
       ELSE /\ pc' = "done"
            /\ LET m == SetExitStatusCode(Mon, "SETUP_ERROR", Sub(failure))
               IN result_' = m.result_ /\ set_calls' = m.set_calls

InitSetupSignals ==
  /\ pc = "start"
  /\ attach.apc = "idle"
  /\ \E ok \in BOOLEAN :
       IF ok
         THEN /\ attach' = [attach EXCEPT !.apc = "list"]
              /\ UNCHANGED <<pc, result_, set_calls, setup_notification_>>
         ELSE /\ attach' = [attach EXCEPT !.apc = "returned"]
              /\ SetupEnds("FAILED_SIGNALS")
  /\ UNCHANGED << cfg, timed_out_, external_kill_, network_violation_,
                  should_dump_stack_, wait_for_execve_, syscalls_in_progress_,
                  sandboxee_exited, statuses_, last_errno_,
                  external_kill_request_flag_, dump_stack_request_flag_,
                  violation_occurred_, deadline_millis_, now, task, quiescent,
                  nstops, nreqs, last, calls, hist, unwind >>

\* InitPtraceAttach up to its retry loop: the init process is seized, the
\* tasks are listed, the main PID must be among them, the deadline is set.
InitPtraceAttach ==
  /\ attach.apc = "list"
  /\ \E init_seized \in BOOLEAN, listed \in BOOLEAN :
       IF init_seized /\ listed /\ main_pid \in ListOfTasks
         THEN attach' = [attach EXCEPT !.apc = "seize",
                                       !.tasks = ListOfTasks,
                                       !.todo = ListOfTasks,
                                       !.tasks_left = {},
                                       !.tasks_attached = {},
                                       !.retries = 0,
                                       !.deadline = attach.clock + kAttachBudget,
                                       !.tracer = RunThread,
                                       !.init_seized = TRUE]
         ELSE attach' = [attach EXCEPT
                           !.apc = "false",
                           !.tracer = IF init_seized THEN RunThread ELSE @,
                           !.init_seized = init_seized]
  /\ UNCHANGED << cfg, pc, result_, set_calls, timed_out_, external_kill_,
                  network_violation_, should_dump_stack_, wait_for_execve_,
                  syscalls_in_progress_, sandboxee_exited, statuses_,
                  last_errno_, external_kill_request_flag_,
                  dump_stack_request_flag_, violation_occurred_,
                  deadline_millis_, now, task, quiescent, nstops, nreqs, last,
                  calls, hist, setup_notification_, unwind >>

\* One task of the retry loop's pass.
SeizeTask ==
  /\ attach.apc = "seize"
  /\ \E t \in attach.todo : \E answer \in SeizeAnswers(t) :
       CASE answer = "ok" ->
              attach' = [attach EXCEPT !.todo = @ \ {t},
                                       !.tasks_attached = @ \cup {t},
                                       !.seized = @ \cup {t},
                                       !.tracer = RunThread]
         [] answer = "EPERM" ->
              attach' = [attach EXCEPT !.todo = @ \ {t},
                                       !.tasks_left = @ \cup {t}]
         [] answer = "ESRCH" ->
              attach' = [attach EXCEPT !.todo = @ \ {t}]
         [] OTHER ->
              attach' = [attach EXCEPT !.apc = "false"]
  /\ UNCHANGED << cfg, pc, result_, set_calls, timed_out_, external_kill_,
                  network_violation_, should_dump_stack_, wait_for_execve_,
                  syscalls_in_progress_, sandboxee_exited, statuses_,
                  last_errno_, external_kill_request_flag_,
                  dump_stack_request_flag_, violation_occurred_,
                  deadline_millis_, now, task, quiescent, nstops, nreqs, last,
                  calls, hist, setup_notification_, unwind >>

\* The end of a pass: the tasks left are tried again, or the attach gives up.
RetryTasksLeft ==
  /\ attach.apc = "seize"
  /\ attach.todo = {}
  /\ IF attach.tasks_left # {}
       THEN IF AttachTimedOut(attach)
              THEN attach' = [attach EXCEPT !.apc = "false"]
              ELSE attach' = [attach EXCEPT
                                !.retries = IF @ < MaxRetries THEN @ + 1 ELSE @,
                                !.tasks = attach.tasks_left,
                                !.todo = attach.tasks_left,
                                !.tasks_left = {}]
       ELSE attach' = [attach EXCEPT !.apc = "verify", !.tasks = {}]
  /\ UNCHANGED << cfg, pc, result_, set_calls, timed_out_, external_kill_,
                  network_violation_, should_dump_stack_, wait_for_execve_,
                  syscalls_in_progress_, sandboxee_exited, statuses_,
                  last_errno_, external_kill_request_flag_,
                  dump_stack_request_flag_, violation_occurred_,
                  deadline_millis_, now, task, quiescent, nstops, nreqs, last,
                  calls, hist, setup_notification_, unwind >>

\* A comparison that accepts any task list: C13 does not hold of it.
TasksMatchAlways(a, listed) == TRUE

\* The tasks attached are the tasks of the list read again.
TasksMatch(a, listed) == a.tasks_attached = listed

\* An end of InitPtraceAttach that does not look at the answer of
\* SendUint32: C27 does not hold of it.
AttachResultIgnoresSend(matched, sent) == matched

\* The end of InitPtraceAttach: true when the task lists matched and
\* kSandbox2ClientDone went out.
AttachResult(matched, sent) == matched /\ sent

\* After the loop: the task list is read again and compared with the tasks
\* attached, then the client is told to go on (kSandbox2ClientDone is sent
\* when the lists match).
VerifyTasks ==
  /\ attach.apc = "verify"
  /\ \E listed \in BOOLEAN, sent \in BOOLEAN :
       IF ~listed
         THEN attach' = [attach EXCEPT !.apc = "false"]
         ELSE LET matched == TasksMatch(attach, ListOfTasks)
              IN attach' =
                   [attach EXCEPT
                      !.apc = IF AttachResult(matched, sent)
                                THEN "true" ELSE "false",
                      !.tasks = ListOfTasks,
                      !.send_tries = IF matched THEN @ + 1 ELSE @,
                      !.sends = IF matched /\ sent THEN @ + 1 ELSE @]
  /\ UNCHANGED << cfg, pc, result_, set_calls, timed_out_, external_kill_,
                  network_violation_, should_dump_stack_, wait_for_execve_,
                  syscalls_in_progress_, sandboxee_exited, statuses_,
                  last_errno_, external_kill_request_flag_,
                  dump_stack_request_flag_, violation_occurred_,
                  deadline_millis_, now, task, quiescent, nstops, nreqs, last,
                  calls, hist, setup_notification_, unwind >>

\* Run with InitPtraceAttach's answer.
RunAfterAttach ==
  /\ pc = "start"
  /\ attach.apc \in {"true", "false"}
  /\ attach' = [attach EXCEPT !.apc = "returned"]
  /\ SetupEnds(IF attach.apc = "true" THEN "ok" ELSE "FAILED_PTRACE")
  /\ UNCHANGED << cfg, timed_out_, external_kill_, network_violation_,
                  should_dump_stack_, wait_for_execve_, syscalls_in_progress_,
                  sandboxee_exited, statuses_, last_errno_,
                  external_kill_request_flag_, dump_stack_request_flag_,
                  violation_occurred_, deadline_millis_, now, task, quiescent,
                  nstops, nreqs, last, calls, hist, unwind >>

\* The sandboxee while the monitor attaches: a live thread starts another
\* (the kernel seizes the child of a seized thread, PTRACE_O_TRACECLONE;
\* thread ids are not reused within the attach), a thread begins to exit,
\* an exiting thread is gone; the clock is read from the deadline's
\* assignment on.
ThreadCreate(parent) ==
  /\ Attaching
  /\ attach.threads[parent] = "alive"
  /\ attach.next_tid \in Tids
  /\ attach' = [attach EXCEPT
                  !.threads[attach.next_tid] = "alive",
                  !.next_tid = @ + 1,
                  !.seized = IF parent \in attach.seized
                               THEN @ \cup {attach.next_tid} ELSE @]
  /\ UNCHANGED << cfg, pc, result_, set_calls, timed_out_, external_kill_,
                  network_violation_, should_dump_stack_, wait_for_execve_,
                  syscalls_in_progress_, sandboxee_exited, statuses_,
                  last_errno_, external_kill_request_flag_,
                  dump_stack_request_flag_, violation_occurred_,
                  deadline_millis_, now, task, quiescent, nstops, nreqs, last,
                  calls, hist, setup_notification_, unwind >>

ThreadExit(t) ==
  /\ Attaching
  /\ attach.threads[t] = "alive"
  /\ attach' = [attach EXCEPT !.threads[t] = "exiting"]
  /\ UNCHANGED << cfg, pc, result_, set_calls, timed_out_, external_kill_,
                  network_violation_, should_dump_stack_, wait_for_execve_,
                  syscalls_in_progress_, sandboxee_exited, statuses_,
                  last_errno_, external_kill_request_flag_,
                  dump_stack_request_flag_, violation_occurred_,
                  deadline_millis_, now, task, quiescent, nstops, nreqs, last,
                  calls, hist, setup_notification_, unwind >>

ThreadGone(t) ==
  /\ Attaching
  /\ attach.threads[t] = "exiting"
  /\ attach' = [attach EXCEPT !.threads[t] = "none", !.seized = @ \ {t}]
  /\ UNCHANGED << cfg, pc, result_, set_calls, timed_out_, external_kill_,
                  network_violation_, should_dump_stack_, wait_for_execve_,
                  syscalls_in_progress_, sandboxee_exited, statuses_,
                  last_errno_, external_kill_request_flag_,
                  dump_stack_request_flag_, violation_occurred_,
                  deadline_millis_, now, task, quiescent, nstops, nreqs, last,
                  calls, hist, setup_notification_, unwind >>

AttachTick ==
  /\ attach.apc = "seize"
  /\ attach.clock < MaxAttachTime
  /\ attach' = [attach EXCEPT !.clock = @ + 1]
  /\ UNCHANGED << cfg, pc, result_, set_calls, timed_out_, external_kill_,
                  network_violation_, should_dump_stack_, wait_for_execve_,
                  syscalls_in_progress_, sandboxee_exited, statuses_,
                  last_errno_, external_kill_request_flag_,
                  dump_stack_request_flag_, violation_occurred_,
                  deadline_millis_, now, task, quiescent, nstops, nreqs, last,
                  calls, hist, setup_notification_, unwind >>

NextAttach ==
  \/ InitSetupSignals
  \/ InitPtraceAttach
  \/ SeizeTask
  \/ RetryTasksLeft
  \/ VerifyTasks
  \/ RunAfterAttach
  \/ \E t \in Tids : ThreadCreate(t)
  \/ \E t \in Tids : ThreadExit(t)
  \/ \E t \in Tids : ThreadGone(t)
  \/ AttachTick

SpecAttach == Init /\ [][NextAttach]_vars

\* The monitor thread runs and time passes.
MonitorSetupStep ==
  \/ InitSetupSignals
  \/ InitPtraceAttach
  \/ SeizeTask
  \/ RetryTasksLeft
  \/ VerifyTasks
  \/ RunAfterAttach

FairSpecAttach ==
  /\ SpecAttach
  /\ WF_vars(MonitorSetupStep)
  /\ WF_vars(AttachTick)

(***************************************************************************)
(* The requests at any point of a turn of the main loop, and any number of *)
(* times: a request made while the monitor waits or dispatches is read at  *)
(* the head of the next turn.  sigtimedwait returns after kWakeUpPeriod at *)
(* the latest, or at once on the SIGCHLD of NotifyMonitor, which the       *)
(* monitor thread keeps blocked and so pending: it is part of LoopWait.    *)
(***************************************************************************)
InLoop == pc \in {"loop", "wait", "dispatch"}

\* PtraceMonitor::Kill, whatever the flag holds.
KillCalled ==
  /\ InLoop /\ nreqs < MaxRequests
  /\ nreqs' = nreqs + 1
  /\ external_kill_request_flag_' = FALSE
  /\ hist' = [hist EXCEPT !.kill_quiet = @ \/ Quiet]
  /\ UNCHANGED << cfg, pc, result_, set_calls, timed_out_, external_kill_,
                  network_violation_, should_dump_stack_, wait_for_execve_,
                  syscalls_in_progress_, sandboxee_exited, statuses_,
                  last_errno_, dump_stack_request_flag_, violation_occurred_,
                  deadline_millis_, now, task, quiescent, nstops, last, calls,
                  setup_notification_, attach, unwind >>

\* PtraceMonitor::DumpStack, whatever the flag holds.
DumpStackCalled ==
  /\ InLoop /\ nreqs < MaxRequests
  /\ nreqs' = nreqs + 1
  /\ dump_stack_request_flag_' = FALSE
  /\ UNCHANGED << cfg, pc, result_, set_calls, timed_out_, external_kill_,
                  network_violation_, should_dump_stack_, wait_for_execve_,
                  syscalls_in_progress_, sandboxee_exited, statuses_,
                  last_errno_, external_kill_request_flag_, violation_occurred_,
                  deadline_millis_, now, task, quiescent, nstops, last, calls,
                  hist, setup_notification_, attach, unwind >>

\* The network proxy server records a violation, the first or a later one.
NetworkViolationRecorded ==
  /\ InLoop /\ nreqs < MaxRequests
  /\ nreqs' = nreqs + 1
  /\ cfg.network_proxy_server_
  /\ violation_occurred_' = TRUE
  /\ UNCHANGED << cfg, pc, result_, set_calls, timed_out_, external_kill_,
                  network_violation_, should_dump_stack_, wait_for_execve_,
                  syscalls_in_progress_, sandboxee_exited, statuses_,
                  last_errno_, external_kill_request_flag_,
                  dump_stack_request_flag_, deadline_millis_, now, task,
                  quiescent, nstops, last, calls, hist, setup_notification_,
                  attach, unwind >>

NextRequests ==
  \/ RunSetup
  \/ LoopHead
  \/ LoopWait
  \/ LoopDispatch
  \/ PostLoop
  \/ Shutdown
  \/ \E p \in Pids : KStop(p)
  \/ \E p \in Pids : KExitStopKilled(p)
  \/ \E p \in Pids : KDie(p)
  \/ KillCalled
  \/ DumpStackCalled
  \/ NetworkViolationRecorded

SpecRequests == Init /\ [][NextRequests]_vars

\* The monitor thread runs.
MonitorStep ==
  \/ RunSetup
  \/ LoopHead
  \/ LoopWait
  \/ LoopDispatch
  \/ PostLoop
  \/ Shutdown

FairSpecRequests == SpecRequests /\ WF_vars(MonitorStep)

(***************************************************************************)
(* A noisy sandboxee with a wall-time limit: the main task keeps starting  *)
(* children, the child is signalled again and again and exits, without    *)
(* end; the main task never stops otherwise.                               *)
(***************************************************************************)
\* The stops of the child storm: the main task's clone while it has no
\* child, the child's signal-delivery stops and its exit.
NoiseMenu(p) ==
  IF p = main_pid
    THEN IF task[other_pid].st = "gone"
           THEN { <<W_EVENT(SIGTRAP, PTRACE_EVENT_CLONE), other_pid>> }
           ELSE {}
    ELSE { <<W_EVENT(SIGTRAP, PTRACE_EVENT_EXIT), W_EXITCODE(0, 0)>>,
           <<W_STOPCODE(SIGUSR1), 0>> }

\* A running task of the storm enters its next stop.
NoisyStop(p) ==
  /\ Live /\ ~quiescent
  /\ task[p].st = "running" /\ ~task[p].killed
  /\ \E s \in NoiseMenu(p) :
       task' = [q \in Pids |->
                  IF q = p
                    THEN [task[p] EXCEPT !.st = "stopped", !.ws = s[1],
                                         !.msg = s[2], !.reported = FALSE]
                  ELSE IF NewProcess(s) /\ q = s[2] THEN RunningTask
                  ELSE task[q]]
  /\ UNCHANGED << cfg, pc, result_, set_calls, timed_out_, external_kill_,
                  network_violation_, should_dump_stack_, wait_for_execve_,
                  syscalls_in_progress_, sandboxee_exited, statuses_,
                  last_errno_, external_kill_request_flag_,
                  dump_stack_request_flag_, violation_occurred_,
                  deadline_millis_, now, quiescent, nstops, nreqs, last, calls,
                  hist, setup_notification_, attach, unwind >>

\* The executor's wall-time limit, set once.
NoisyLimit ==
  /\ deadline_millis_ = 0
  /\ SetWallTimeLimit(1)

\* Time passes up to the deadline.
NoisyTick ==
  /\ AtHead
  /\ now < deadline_millis_
  /\ now' = now + 1
  /\ UNCHANGED << cfg, pc, result_, set_calls, timed_out_, external_kill_,
                  network_violation_, should_dump_stack_, wait_for_execve_,
                  syscalls_in_progress_, sandboxee_exited, statuses_,
                  last_errno_, external_kill_request_flag_,
                  dump_stack_request_flag_, violation_occurred_,
                  deadline_millis_, task, quiescent, nstops, nreqs, last, calls,
                  hist, setup_notification_, attach, unwind >>

\* The close-out loop's own deadline passes.
ShutdownTimesOut == Shutdown /\ pc' = "done"

NextNoisy ==
  \/ RunSetup
  \/ LoopHead
  \/ LoopWait
  \/ LoopDispatch
  \/ PostLoop
  \/ Shutdown
  \/ \E p \in Pids : NoisyStop(p)
  \/ \E p \in Pids : KExitStopKilled(p)
  \/ \E p \in Pids : KDie(p)
  \/ NoisyLimit
  \/ NoisyTick

SpecNoisy == Init /\ [][NextNoisy]_vars

\* The monitor thread runs, time passes (the clock is read at the head of a
\* turn, where the model lets it advance), a killed task dies.
FairSpecNoisy ==
  /\ SpecNoisy
  /\ WF_vars(MonitorStep)
  /\ WF_vars(ShutdownTimesOut)
  /\ SF_vars(NoisyTick)
  /\ WF_vars(KDie(main_pid))

(***************************************************************************)
(* The run with continuation requests that fail for a reason other than    *)
(* ESRCH: ContinueProcess, StopProcess and CompleteSyscall log the failure *)
(* and return.                                                             *)
(***************************************************************************)
FailContinuations(cs) ==
  [i \in 1..Len(cs) |->
     IF IsContinuation(cs[i]) THEN [cs[i] EXCEPT !.x = "EIO"] ELSE cs[i]]

\* LoopDispatch with a handler whose continuation request fails.
LoopDispatchFaulty ==
  /\ pc = "dispatch"
  /\ \E o \in Answers(task, last.pid, last.status) :
       LET event_msg == IF last.pid \in Pids THEN task[last.pid].msg ELSE 0
           m == LoopBody(Mon, last.pid, last.status, last.errno, event_msg, o)
           tk == IF o.fetch = "NotFound"
                   THEN [task EXCEPT ![last.pid] = Dead(@)] ELSE task
       IN /\ \E i \in 1..Len(m.calls) :
               IsContinuation(m.calls[i]) /\ Stopped(tk, m.calls[i].pid)
          /\ Store(m)
          /\ calls' = FailContinuations(m.calls)
          /\ task' = ApplyCalls(tk, calls')
          /\ last' = [last EXCEPT !.msg = event_msg, !.o = o]
  /\ pc' = "loop"
  /\ UNCHANGED << cfg, timed_out_, external_kill_, network_violation_,
                  statuses_, last_errno_, external_kill_request_flag_,
                  dump_stack_request_flag_, violation_occurred_,
                  deadline_millis_, now, quiescent, nstops, nreqs, hist,
                  setup_notification_, attach, unwind >>

NextFaulty ==
  \/ RunSetup
  \/ LoopHead
  \/ LoopWait
  \/ LoopDispatch
  \/ LoopDispatchFaulty
  \/ PostLoop
  \/ Shutdown
  \/ \E p \in Pids : KStop(p)
  \/ \E p \in Pids : KExitStopKilled(p)
  \/ \E p \in Pids : KDie(p)
  \/ Kill

SpecFaulty == Init /\ [][NextFaulty]_vars

\* The monitor thread runs, the window of the close-out loop passes, a task
\* that was sent SIGKILL dies.
FairSpecFaulty ==
  /\ SpecFaulty
  /\ WF_vars(MonitorStep)
  /\ WF_vars(ShutdownTimesOut)
  /\ WF_vars(KDie(main_pid))

(***************************************************************************)
(* The run with the thread that started it: RunInternal returns to its     *)
(* caller once the setup notification is issued, and the caller's thread   *)
(* may end while the monitor thread runs.  PTRACE_O_EXITKILL: the tasks    *)
(* seized by a thread that ends are sent SIGKILL.                          *)
(***************************************************************************)
StarterReturns ==
  /\ attach.starter = "waiting"
  /\ setup_notification_ > 0
  /\ attach' = [attach EXCEPT !.starter = "returned"]
  /\ UNCHANGED << cfg, pc, result_, set_calls, timed_out_, external_kill_,
                  network_violation_, should_dump_stack_, wait_for_execve_,
                  syscalls_in_progress_, sandboxee_exited, statuses_,
                  last_errno_, external_kill_request_flag_,
                  dump_stack_request_flag_, violation_occurred_,
                  deadline_millis_, now, task, quiescent, nstops, nreqs, last,
                  calls, hist, setup_notification_, unwind >>

StarterEnds ==
  /\ attach.starter = "returned"
  /\ attach' = [attach EXCEPT
                  !.starter = "ended",
                  !.ended_live = /\ InLoop /\ LoopCondition
                                 /\ task[main_pid].st = "running"]
  /\ task' = IF attach.tracer = "starter"
               THEN [p \in Pids |-> KillTask(task[p])]
               ELSE task
  /\ UNCHANGED << cfg, pc, result_, set_calls, timed_out_, external_kill_,
                  network_violation_, should_dump_stack_, wait_for_execve_,
                  syscalls_in_progress_, sandboxee_exited, statuses_,
                  last_errno_, external_kill_request_flag_,
                  dump_stack_request_flag_, violation_occurred_,
                  deadline_millis_, now, quiescent, nstops, nreqs, last,
                  calls, hist, setup_notification_, unwind >>

NextThreads ==
  \/ RunSetup
  \/ LoopHead
  \/ LoopWait
  \/ LoopDispatch
  \/ PostLoop
  \/ Shutdown
  \/ \E p \in Pids : KStop(p)
  \/ \E p \in Pids : KExitStopKilled(p)
  \/ \E p \in Pids : KDie(p)
  \/ StarterReturns
  \/ StarterEnds

SpecThreads == Init /\ [][NextThreads]_vars

(***************************************************************************)
(* The unwinder (unwind.cc).  Its functions are applied to inputs drawn    *)
(* from bounded sets: unwind holds one call, its arguments and, once the   *)
(* call has returned, its result.  The monitor stays idle meanwhile.       *)
(***************************************************************************)
\* The greatest address of the symbol maps explored.
MaxAddr == 21

\* absl::Hex: lower-case hexadecimal digits, no padding.
RECURSIVE Hex(_)
Hex(n) ==
  LET digits == << "0", "1", "2", "3", "4", "5", "6", "7", "8", "9",
                   "a", "b", "c", "d", "e", "f" >>
  IN IF n < 16 THEN digits[n + 1]
     ELSE Hex(n \div 16) \o digits[(n % 16) + 1]

\* The names found in symbol tables: "_Z1fv" is the mangled name of f().
SymbolNames == {"main", "_Z1fv"}

\* DemangleSymbol: the demangled name when abi::__cxa_demangle knows one,
\* the name itself otherwise.
DemangleSymbol(maybe_mangled) ==
  IF maybe_mangled = "_Z1fv" THEN "f()" ELSE maybe_mangled

\* A SymbolMap is a function from its keys to their symbols.  An iterator
\* is the key it stands at; MapEnd is end().
MapEnd == -1

MinOf(S) == CHOOSE x \in S : \A y \in S : x <= y

MaxOf(S) == CHOOSE x \in S : \A y \in S : x >= y

\* std::map::begin
MapBegin(map) == IF DOMAIN map = {} THEN MapEnd ELSE MinOf(DOMAIN map)

\* std::map::lower_bound: the first key that is not below addr.
LowerBound(map, addr) ==
  LET ge == { k \in DOMAIN map : k >= addr }
  IN IF ge = {} THEN MapEnd ELSE MinOf(ge)

GetSymbolAt(addr_to_symbol, addr) ==
  LET entry_for_next_symbol == LowerBound(addr_to_symbol, addr)
  IN IF entry_for_next_symbol # MapEnd
        /\ entry_for_next_symbol # MapBegin(addr_to_symbol)
       THEN IF entry_for_next_symbol = addr
              THEN DemangleSymbol(addr_to_symbol[entry_for_next_symbol])
              ELSE LET entry_for_previous_symbol ==
                         MaxOf({ k \in DOMAIN addr_to_symbol :
                                   k < entry_for_next_symbol })
                   IN IF addr_to_symbol[entry_for_previous_symbol] # ""
                        THEN DemangleSymbol(
                               addr_to_symbol[entry_for_previous_symbol])
                             \o "+0x"
                             \o Hex(addr - entry_for_previous_symbol)
                        ELSE ""
       ELSE ""

\* The monitor idles while the unwinder is exercised.
UnwinderIdle ==
  /\ cfg = CHOOSE c \in Configs : TRUE
  /\ MonitorIdle
  /\ quiescent

\* The symbol maps explored: each of four keys is absent, a sentinel (the
\* empty string) or a symbol.
InitGetSymbolAt ==
  /\ UnwinderIdle
  /\ LET maps == UNION { [K -> SymbolNames \cup {""}] :
                          K \in SUBSET {0, 2, 3, MaxAddr - 1} }
     IN unwind \in [op : {"GetSymbolAt"}, map : maps, addr : 0..MaxAddr,
                    done : {FALSE}, out : {""}]

\* The monitor's variables, all but unwind.
monitor_vars ==
  << cfg, pc, result_, set_calls, timed_out_, external_kill_,
     network_violation_, should_dump_stack_, wait_for_execve_,
     syscalls_in_progress_, sandboxee_exited, statuses_, last_errno_,
     external_kill_request_flag_, dump_stack_request_flag_,
     violation_occurred_, deadline_millis_, now, task, quiescent, nstops, nreqs,
     last, calls, hist, setup_notification_, attach >>

\* One call of GetSymbolAt returns.
GetSymbolAtCall ==
  /\ unwind.op = "GetSymbolAt" /\ ~unwind.done
  /\ unwind' = [unwind EXCEPT !.done = TRUE,
                              !.out = GetSymbolAt(unwind.map, unwind.addr)]
  /\ UNCHANGED monitor_vars

SpecGetSymbolAt == InitGetSymbolAt /\ [][GetSymbolAtCall]_vars

\* The greatest address of the mappings explored, and their number.
MaxMapAddr == 4

MaxEntries == 2

\* addr_to_symbol[key] = value
Put(map, key, value) ==
  [k \in DOMAIN map \cup {key} |-> IF k = key THEN value ELSE map[k]]

\* The paths of the mappings explored; absl::EndsWith(path, " (deleted)").
Paths == {"", "/bin/a", "/bin/a (deleted)"}

EndsWithDeleted(path) == path = "/bin/a (deleted)"

\* The loop over elf->symbols(), on a host that is not ARM.
RECURSIVE AddSymbols(_, _, _, _)
AddSymbols(map, entry, position_independent, symbols) ==
  IF symbols = <<>> THEN map
  ELSE LET symbol == Head(symbols)
           next ==
             IF position_independent
               THEN IF symbol.address >= entry.pgoff
                       /\ symbol.address - entry.pgoff
                            < entry.end - entry.start
                      THEN Put(map,
                               symbol.address + entry.start - entry.pgoff,
                               symbol.name)
                      ELSE map
               ELSE IF symbol.address >= entry.start
                       /\ symbol.address < entry.end
                      THEN Put(map, symbol.address, symbol.name)
                      ELSE map
       IN AddSymbols(next, entry, position_independent, Tail(symbols))

\* A loop body that does not close the mapping with a sentinel: C36 does
\* not hold of it.
LoadEntryNoSentinel(map, entry, elf) ==
  IF ~entry.is_executable \/ entry.inode = 0 \/ entry.path = ""
     \/ EndsWithDeleted(entry.path)
    THEN map
    ELSE LET name == "map:" \o entry.path
                     \o (IF entry.pgoff # 0
                           THEN "+0x" \o Hex(entry.pgoff) ELSE "")
             m1 == Put(map, entry.start, name)
         IN IF ~elf.ok THEN m1
            ELSE AddSymbols(m1, entry, elf.position_independent, elf.symbols)

\* The body of the loop over the maps entries; elf is what
\* ElfFile::ParseFromFile makes of the entry's file.
LoadEntry(map, entry, elf) ==
  IF ~entry.is_executable \/ entry.inode = 0 \/ entry.path = ""
     \/ EndsWithDeleted(entry.path)
    THEN map
    ELSE LET name == "map:" \o entry.path
                     \o (IF entry.pgoff # 0
                           THEN "+0x" \o Hex(entry.pgoff) ELSE "")
             m1 == Put(Put(map, entry.start, name), entry.end, "")
         IN IF ~elf.ok THEN m1
            ELSE AddSymbols(m1, entry, elf.position_independent, elf.symbols)

\* LoadSymbolsMap behind ParseProcMaps: maps is the list of entries, map the
\* SymbolMap built so far.
RECURSIVE LoadSymbolsMap(_, _, _)
LoadSymbolsMap(map, maps, elf) ==
  IF maps = <<>> THEN map
  ELSE LoadSymbolsMap(LoadEntry(map, Head(maps), elf), Tail(maps), elf)

\* The maps entries explored: what /proc/<pid>/maps lists is sorted and
\* does not overlap.  The file is an ELF file with at most two symbols, or
\* one that cannot be parsed.
MapsEntries ==
  [start : 0..MaxMapAddr, end : 0..MaxMapAddr, pgoff : {0, 2},
   is_executable : BOOLEAN, inode : {0, 1}, path : Paths]

MapsLists ==
  LET kinds == { e \in MapsEntries :
                   /\ e.start < e.end
                   /\ \/ e.is_executable
                      \/ e.path = "/bin/a" /\ e.inode = 1 }
  IN UNION { { q \in [1..n -> kinds] :
                 \A i \in 1..(n - 1) : q[i].end <= q[i + 1].start } :
             n \in 0..MaxEntries }

ElfFiles ==
  LET Symbols == [name : SymbolNames, address : 0..MaxMapAddr]
      lists == UNION { [1..n -> Symbols] : n \in 0..2 }
  IN { [ok |-> FALSE, position_independent |-> FALSE, symbols |-> <<>>] }
     \cup [ok : {TRUE}, position_independent : BOOLEAN, symbols : lists]

InitLoadSymbolsMap ==
  /\ UnwinderIdle
  /\ unwind \in [op : {"LoadSymbolsMap"}, maps : MapsLists, elf : ElfFiles,
                 done : {FALSE}, out : {<<>>}]

\* One call of LoadSymbolsMap returns.
LoadSymbolsMapCall ==
  /\ unwind.op = "LoadSymbolsMap" /\ ~unwind.done
  /\ unwind' = [unwind EXCEPT
                  !.done = TRUE,
                  !.out = LoadSymbolsMap(<<>>, unwind.maps, unwind.elf)]
  /\ UNCHANGED monitor_vars

SpecLoadSymbolsMap == InitLoadSymbolsMap /\ [][LoadSymbolsMapCall]_vars

\* The greatest max_frames explored; libunwind sees as many frames at most.
MaxFrames == 3

\* A ptrace request or a libunwind call that failed, in place of its value.
Fault == -1

\* The sandboxee's memory as the frame-pointer walk reads it: mem[fp].ip is
\* ReadMemory(pid, fp + kIPOffset * sizeof(void*)), mem[fp].next is
\* ReadMemory(pid, fp); either is Fault when ptrace fails.
RECURSIVE FramePointerLoop(_, _, _, _, _)
FramePointerLoop(mem, max_frames, fp, i, ips) ==
  IF fp # 0 /\ i < max_frames
    THEN IF mem[fp].ip = Fault \/ mem[fp].next = Fault
           THEN [ok |-> FALSE, ips |-> <<>>]
           ELSE FramePointerLoop(mem, max_frames, mem[fp].next, i + 1,
                                 Append(ips, mem[fp].ip))
    ELSE [ok |-> TRUE, ips |-> ips]

\* UnwindUsingFramePointer: [ok, ips].
UnwindUsingFramePointer(mem, max_frames, fp) ==
  FramePointerLoop(mem, max_frames, fp, 0, <<>>)

\* A fallback that is given the whole budget again: C37 does not hold of it.
WholeBudget(max_frames, ips) == max_frames

\* The budget RunLibUnwind hands to the frame-pointer walk.
RemainingBudget(max_frames, ips) == max_frames - Len(ips)

\* The loop of RunLibUnwind.  cursor is the stack as libunwind sees it: the
\* frame the cursor stands at gives unw_get_reg(UNW_REG_IP) (ip, Fault when
\* it fails), the frame pointer register (fp, 0 when it cannot be read) and
\* what unw_step answers from there (step).
RECURSIVE LibUnwindLoop(_, _, _, _, _)
LibUnwindLoop(cursor, mem, max_frames, i, ips) ==
  IF i >= max_frames THEN ips
  ELSE LET frame == cursor[i + 1]
           ips1 == Append(ips, frame.ip)
       IN IF frame.ip = Fault THEN ips
          ELSE IF frame.step > 0
            THEN LibUnwindLoop(cursor, mem, max_frames, i + 1, ips1)
          ELSE IF frame.fp # 0
            THEN LET fp_ips ==
                       UnwindUsingFramePointer(
                         mem, RemainingBudget(max_frames, ips1), frame.fp)
                 IN IF ~fp_ips.ok THEN ips1 ELSE ips1 \o fp_ips.ips
          ELSE ips1

\* RunLibUnwind: [ok, ips].  setup names the call that failed before the
\* loop (unw_create_addr_space, _UPT_create, unw_init_remote), or is "ok".
RunLibUnwind(setup, cursor, mem, max_frames) ==
  IF setup # "ok" THEN [ok |-> FALSE, ips |-> <<>>]
  ELSE [ok |-> TRUE, ips |-> LibUnwindLoop(cursor, mem, max_frames, 0, <<>>)]

\* The stacks explored: up to MaxFrames frames for libunwind, the last of
\* which unw_step does not get past, and two frame records in memory that
\* may point at each other.  A call that fails in its set-up reads neither.
Cursors ==
  LET Frames == [ip : {Fault, 7}, fp : 0..2, step : {-1, 0, 1}]
  IN UNION { { c \in [1..n -> Frames] :
                 \A i \in 1..n : (c[i].step > 0) <=> (i < n) } :
             n \in 1..MaxFrames }

Memories == [1..2 -> [ip : {Fault, 9}, next : {Fault, 0, 1, 2}]]

InitRunLibUnwind ==
  /\ UnwinderIdle
  /\ unwind \in
       { u \in [op : {"RunLibUnwind"},
                setup : {"ok", "unw_create_addr_space", "_UPT_create",
                         "unw_init_remote"},
                cursor : Cursors, mem : Memories, max_frames : 0..MaxFrames,
                done : {FALSE}, out : {[ok |-> FALSE, ips |-> <<>>]}] :
           u.setup # "ok" =>
             /\ u.cursor = <<[ip |-> 7, fp |-> 0, step |-> 0]>>
             /\ u.mem = [a \in 1..2 |-> [ip |-> 9, next |-> 0]] }

\* One call of RunLibUnwind returns.
RunLibUnwindCall ==
  /\ unwind.op = "RunLibUnwind" /\ ~unwind.done
  /\ unwind' = [unwind EXCEPT
                  !.done = TRUE,
                  !.out = RunLibUnwind(unwind.setup, unwind.cursor,
                                       unwind.mem, unwind.max_frames)]
  /\ UNCHANGED monitor_vars

SpecRunLibUnwind == InitRunLibUnwind /\ [][RunLibUnwindCall]_vars

Next ==
  \/ RunSetup
  \/ LoopHead
  \/ LoopWait
  \/ LoopDispatch
  \/ PostLoop
  \/ Shutdown
  \/ \E p \in Pids : KStop(p)
  \/ \E p \in Pids : KExitStopKilled(p)
  \/ \E p \in Pids : KDie(p)
  \/ Kill
  \/ DumpStack
  \/ \E limit \in 0..1 : SetWallTimeLimit(limit)
  \/ NetworkViolation
  \/ Tick

Spec == Init /\ [][Next]_vars

(***************************************************************************)
(* The claims.                                                             *)
(***************************************************************************)
\* C1: in a run SetExitStatusCode is called at most once, and the Result
\* is terminal exactly when it has been called: final_status goes from
\* UNSET to a terminal value once and no later step assigns it again.
C1_AssignedAtMostOnce ==
  /\ set_calls <= 1
  /\ (set_calls = 0) <=> (result_.final_status = "UNSET")

\* A run that has ended with the status of a death by a signal.
C1_Witness ==
  pc = "done" /\ set_calls = 1 /\ result_.final_status = "SIGNALED"

\* C2: whenever Run has returned, final_status is not UNSET.
C2_ReturnsWithStatus ==
  pc = "done" => result_.final_status # "UNSET"

\* A run that left the main loop by a break: PTRACE_INTERRUPT failed.
C2_Witness ==
  /\ pc = "done"
  /\ result_.final_status = "INTERNAL_ERROR"
  /\ result_.reason_code = Sub("FAILED_INTERRUPT")

\* The main loop has just dispatched a wait status.
Dispatched == pc = "loop" /\ last.pid # 0

\* The status dispatched says that the main PID was terminated by a signal.
MainSignaledStatus ==
  Dispatched /\ last.pid = main_pid /\ WIFSIGNALED(last.status)

\* The PTRACE_EVENT_EXIT stop dispatched says that the main PID is being
\* terminated by a signal other than SIGSYS.
MainSignaledExitEvent ==
  /\ Dispatched /\ last.pid = main_pid /\ WIFSTOPPED(last.status)
  /\ WPTRACEEVENT(last.status) = PTRACE_EVENT_EXIT
  /\ last.o.gem = "ok"
  /\ WIFSIGNALED(last.msg) /\ WTERMSIG(last.msg) # SIGSYS

HasStatus(final_status, reason_code) ==
  result_.final_status = final_status /\ result_.reason_code = reason_code

\* The ranking of the causes of a death by the signal sig.
RankedStatus(sig) ==
  IF network_violation_ THEN HasStatus("VIOLATION", Sub("VIOLATION_NETWORK"))
  ELSE IF external_kill_ THEN HasStatus("EXTERNAL_KILL", Code(0))
  ELSE IF timed_out_ THEN HasStatus("TIMEOUT", Code(0))
  ELSE HasStatus("SIGNALED", Code(sig))

\* C3 as stated: when the main PID is reported terminated by a signal (by
\* its wait status, or by a PTRACE_EVENT_EXIT stop with a signal other than
\* SIGSYS), the Result is the first of network violation, external kill,
\* timeout and SIGNALED(sig) that applies.
C3_AsStated ==
  /\ MainSignaledStatus => RankedStatus(WTERMSIG(last.status))
  /\ MainSignaledExitEvent => RankedStatus(WTERMSIG(last.msg))

\* C3, amended: the ranking decides the Result of a termination status, and
\* of a PTRACE_EVENT_EXIT stop whose registers could be fetched; when they
\* could not, the Result is INTERNAL_ERROR/FAILED_FETCH.
C3_RankedUnlessFetchFails ==
  /\ MainSignaledStatus => RankedStatus(WTERMSIG(last.status))
  /\ MainSignaledExitEvent =>
       IF last.o.fetch = "ok" THEN RankedStatus(WTERMSIG(last.msg))
       ELSE HasStatus("INTERNAL_ERROR", Sub("FAILED_FETCH"))

\* The main PID's death is dispatched after an external kill and a timeout.
C3_Witness ==
  /\ MainSignaledStatus \/ (MainSignaledExitEvent /\ last.o.fetch = "ok")
  /\ external_kill_ /\ timed_out_
  /\ HasStatus("EXTERNAL_KILL", Code(0))

\* A signal that the monitor never sends and that is no seccomp violation.
OwnSignal(sig) == sig \notin {SIGKILL, SIGSYS}

\* C4 as stated: when the main PID dies from a signal that the monitor did
\* not send (SIGABRT), the Result is SIGNALED with that signal.
C4_AsStated ==
  /\ (MainSignaledStatus /\ OwnSignal(WTERMSIG(last.status))) =>
       HasStatus("SIGNALED", Code(WTERMSIG(last.status)))
  /\ (MainSignaledExitEvent /\ OwnSignal(WTERMSIG(last.msg))) =>
       HasStatus("SIGNALED", Code(WTERMSIG(last.msg)))

\* No network violation, external kill or timeout has been recorded.
NoCauseRecorded == ~network_violation_ /\ ~external_kill_ /\ ~timed_out_

\* C4, amended: the Result is SIGNALED with the signal when no network
\* violation, external kill or timeout has been recorded by the time the
\* death is dispatched; when one has, the Result names the first of them,
\* and when the registers of the exit stop cannot be fetched it is
\* INTERNAL_ERROR/FAILED_FETCH.
C4_SignaledWhenNoCauseRecorded ==
  /\ (MainSignaledStatus /\ OwnSignal(WTERMSIG(last.status))) =>
       IF NoCauseRecorded
         THEN HasStatus("SIGNALED", Code(WTERMSIG(last.status)))
         ELSE /\ RankedStatus(WTERMSIG(last.status))
              /\ result_.final_status # "SIGNALED"
  /\ (MainSignaledExitEvent /\ OwnSignal(WTERMSIG(last.msg))) =>
       IF last.o.fetch # "ok"
         THEN HasStatus("INTERNAL_ERROR", Sub("FAILED_FETCH"))
       ELSE IF NoCauseRecorded
         THEN HasStatus("SIGNALED", Code(WTERMSIG(last.msg)))
         ELSE /\ RankedStatus(WTERMSIG(last.msg))
              /\ result_.final_status # "SIGNALED"

\* The main PID's SIGABRT is dispatched at its exit stop and ends the run
\* as SIGNALED(SIGABRT).
C4_Witness ==
  /\ MainSignaledExitEvent /\ WTERMSIG(last.msg) = SIGABRT
  /\ NoCauseRecorded /\ last.o.fetch = "ok"
  /\ HasStatus("SIGNALED", Code(SIGABRT))

\* The status dispatched says that the main PID exited by itself.
MainExitedStatus ==
  Dispatched /\ last.pid = main_pid /\ WIFEXITED(last.status)

\* The PTRACE_EVENT_EXIT stop of a PID that exits by itself has been handled.
ExitedExitEvent(pid) ==
  /\ Dispatched /\ last.pid = pid /\ WIFSTOPPED(last.status)
  /\ WPTRACEEVENT(last.status) = PTRACE_EVENT_EXIT
  /\ last.o.gem = "ok"
  /\ WIFEXITED(last.msg)

\* The Result of an exit with code c: OK once the exec has been seen or
\* when pre-execve sandboxing is off, SETUP_ERROR/FAILED_MONITOR otherwise.
ExitStatusFor(c) ==
  IF ~wait_for_execve_ THEN HasStatus("OK", Code(c))
  ELSE HasStatus("SETUP_ERROR", Sub("FAILED_MONITOR"))

\* C5 as stated: a normal exit of the main PID with code c ends the run as
\* OK(c) if the monitor is actively monitoring and as
\* SETUP_ERROR/FAILED_MONITOR otherwise, be it reported by the wait status
\* or settled at the exit stop (registers fetched, no other cause
\* recorded); a normal exit of another PID leaves the Result unchanged.
C5_AsStated ==
  /\ MainExitedStatus => ExitStatusFor(WEXITSTATUS(last.status))
  /\ (/\ ExitedExitEvent(main_pid) /\ result_.final_status # "UNSET"
      /\ NoCauseRecorded /\ last.o.fetch = "ok") =>
       ExitStatusFor(WEXITSTATUS(last.msg))
  /\ (\/ Dispatched /\ last.pid = other_pid /\ WIFEXITED(last.status)
      \/ ExitedExitEvent(other_pid)) =>
       result_.final_status = "UNSET"

FailedRequest ==
  /\ result_.final_status = "INTERNAL_ERROR"
  /\ result_.reason_code \in { Sub("FAILED_GETEVENT"), Sub("FAILED_FETCH"),
                               Sub("FAILED_CHILD"), Sub("FAILED_INTERRUPT") }

StackStatuses == {"TIMEOUT", "VIOLATION", "EXTERNAL_KILL", "SIGNALED"}

\* C8 as stated: for TIMEOUT, VIOLATION, EXTERNAL_KILL and SIGNALED the
\* Result's stack trace is empty if and only if the policy's flag for that
\* status is false.
C8_AsStated ==
  result_.final_status \in StackStatuses =>
    ((result_.stack_trace = <<>>)
       <=> ~ShouldCollectStackTrace(result_.final_status))

\* C8, amended: for these statuses the stack trace is empty when the flag
\* is false; when it is true, the trace is there if the status was settled
\* at a stop of the main PID (the registers are in the Result) and the
\* unwinding succeeded.
C8_NoTraceWhenDisabled ==
  result_.final_status \in StackStatuses =>
    /\ ~ShouldCollectStackTrace(result_.final_status) =>
         result_.stack_trace = <<>>
    /\ (/\ ShouldCollectStackTrace(result_.final_status)
        /\ Dispatched /\ result_.regs /\ last.o.stack = "ok") =>
         result_.stack_trace # <<>>

\* A timeout settled at the exit stop under a policy without stack traces.
C8_Witness ==
  /\ HasStatus("TIMEOUT", Code(0)) /\ result_.regs
  /\ ~cfg.policy_.collect_stacktrace_on_timeout_
  /\ result_.stack_trace = <<>>

\* The calls of the last step that bear the name op.
CallsOf(op) == { i \in 1..Len(calls) : calls[i].op = op }

\* EventSyscallTrace has just answered kDeny for a system call of the host
\* architecture, with no log file and without permit_all.
Denied ==
  /\ Dispatched /\ ~cfg.log_file_ /\ ~cfg.permit_all
  /\ WPTRACEEVENT(last.status) = PTRACE_EVENT_SECCOMP
  /\ last.msg = kX8664
  /\ \E i \in CallsOf("EventSyscallTrace") : calls[i].x = "kDeny"

\* C9: a kDeny of EventSyscallTrace for a system call of the host
\* architecture (no log file, no permit_all) invokes EventSyscallViolation
\* exactly once, makes the Result VIOLATION with the system call's number
\* as reason code and that system call as Result.syscall(), and does not
\* resume the tracee.
C9_DenyIsViolation ==
  Denied =>
    /\ Cardinality(CallsOf("EventSyscallViolation")) = 1
    /\ \A i \in CallsOf("EventSyscallViolation") :
         /\ calls[i].pid = last.pid /\ calls[i].a = last.o.nr
         /\ calls[i].x = "kSyscallViolation"
    /\ HasStatus("VIOLATION", Code(last.o.nr))
    /\ result_.syscall = last.o.nr
    /\ \A i \in 1..Len(calls) : ~IsContinuation(calls[i])

\* A denied execve of the main PID.
C9_Witness ==
  /\ Denied /\ last.pid = main_pid /\ last.o.nr = NR_execve
  /\ HasStatus("VIOLATION", Code(NR_execve))

\* The seccomp stop handled bears the tag of a known architecture that is
\* not the host's, and the registers could be fetched.
ArchSwitched ==
  /\ Dispatched /\ WIFSTOPPED(last.status)
  /\ WPTRACEEVENT(last.status) = PTRACE_EVENT_SECCOMP
  /\ last.o.gem = "ok" /\ last.o.fetch = "ok"
  /\ last.msg >= kUnknown /\ last.msg <= kMax /\ last.msg # kX8664

\* C10 as stated: a seccomp event whose architecture tag is known and is
\* not the host's is raised to Notify as kArchitectureSwitchViolation
\* without consulting EventSyscallTrace, and makes the Result VIOLATION with
\* the reason VIOLATION_ARCH_SWITCH.
C10_AsStated ==
  ArchSwitched =>
    /\ CallsOf("EventSyscallTrace") = {}
    /\ \E i \in CallsOf("EventSyscallViolation") :
         calls[i].x = "kArchitectureSwitchViolation"
    /\ HasStatus("VIOLATION", Sub("VIOLATION_ARCH_SWITCH"))

\* The continuation calls of the last dispatch.
Continuations == { i \in 1..Len(calls) : IsContinuation(calls[i]) }

\* The main loop has just dispatched a stop of a traced PID.
StopDispatched == Dispatched /\ last.pid \in Pids /\ WIFSTOPPED(last.status)

\* The stop dispatched is a ptrace stop other than a signal delivery: its
\* handler asks for the event message first.
EventStop ==
  \/ WPTRACEEVENT(last.status) # 0
  \/ WSTOPSIG(last.status) = SIGTRAP + 128

\* C11 as stated: every stop of a traced PID dispatched by the main loop is
\* answered by exactly one continuation call (PTRACE_CONT, PTRACE_LISTEN or
\* PTRACE_SYSCALL), for that PID, before the monitor waits again.
C11_AsStated ==
  StopDispatched =>
    /\ Cardinality(Continuations) = 1
    /\ \A i \in Continuations : calls[i].pid = last.pid

\* The handler of the stop dispatched leaves the PID as it is: the event
\* message could not be read, the seccomp event bears no known architecture,
\* the task was gone when the registers of a seccomp or syscall-exit stop
\* were fetched, or the handler ended the run with a system call violation
\* or an internal error.
Unanswered ==
  /\ EventStop
  /\ \/ last.o.gem # "ok"
     \/ /\ WPTRACEEVENT(last.status) = PTRACE_EVENT_SECCOMP
        /\ (last.msg < kUnknown \/ last.msg > kMax)
     \/ /\ \/ WPTRACEEVENT(last.status) = PTRACE_EVENT_SECCOMP
           \/ WSTOPSIG(last.status) = SIGTRAP + 128
        /\ last.o.fetch = "NotFound"
     \/ result_.final_status = "INTERNAL_ERROR"
     \/ /\ result_.final_status = "VIOLATION"
        /\ result_.reason_code # Sub("VIOLATION_NETWORK")

\* C11, amended: every stop dispatched is answered by at most one
\* continuation call, for that PID; by none when its handler leaves the PID
\* as it is, and by exactly one otherwise.
C11_OneContinuationUnlessLeft ==
  StopDispatched =>
    /\ \A i \in Continuations : calls[i].pid = last.pid
    /\ Cardinality(Continuations) = IF Unanswered THEN 0 ELSE 1

\* A group stop of the main PID answered by PTRACE_LISTEN.
C11_Witness ==
  /\ StopDispatched /\ last.pid = main_pid
  /\ WPTRACEEVENT(last.status) = PTRACE_EVENT_STOP
  /\ WSTOPSIG(last.status) = SIGSTOP
  /\ Cardinality(Continuations) = 1
  /\ \A i \in Continuations : calls[i].op = "PTRACE_LISTEN"

\* The step dispatches a wait status.
DispatchStep == pc = "dispatch" /\ pc' = "loop"

\* The step dispatches a stop of p that ends a system call of p: its
\* syscall-exit stop, or the fork, vfork, clone or exec event that stands
\* for it.
EndsSyscall(p) ==
  /\ DispatchStep /\ last.pid = p /\ WIFSTOPPED(last.status)
  /\ \/ WSTOPSIG(last.status) = SIGTRAP + 128
     \/ WPTRACEEVENT(last.status) \in
          {PTRACE_EVENT_FORK, PTRACE_EVENT_VFORK, PTRACE_EVENT_CLONE,
           PTRACE_EVENT_EXEC}

\* The step ends the run or finds p gone: the sandboxee terminates first.
TerminatesFirst(p) ==
  \/ result_'.final_status # "UNSET"
  \/ last'.o.gem = "ESRCH" \/ last'.o.fetch = "NotFound"
  \/ /\ last.pid = p /\ WIFSTOPPED(last.status)
     /\ WPTRACEEVENT(last.status) = PTRACE_EVENT_EXIT

\* C12 as stated: a system call of p for which EventSyscallTrace answered
\* kInspectAfterReturn is entered in syscalls_in_progress_ without
\* overwriting an entry; EventSyscallReturn is called for it exactly once,
\* at the stop of p that ends the call, where the entry is removed; and no
\* entry is removed or left behind at that stop without the callback,
\* unless the sandboxee terminates first.
C12_AsStated ==
  [][ \A p \in Pids :
        LET Returns == { i \in 1..Len(calls') :
                           /\ calls'[i].op = "EventSyscallReturn"
                           /\ calls'[i].pid = p }
            Inspects == { i \in 1..Len(calls') :
                            /\ calls'[i].op = "EventSyscallTrace"
                            /\ calls'[i].pid = p
                            /\ calls'[i].x = "kInspectAfterReturn" }
        IN DispatchStep =>
             /\ Inspects # {} =>
                   /\ syscalls_in_progress_[p] = NoSyscall
                   /\ \A i \in Inspects :
                        syscalls_in_progress_'[p] = calls'[i].a
             /\ Returns # {} =>
                   /\ Cardinality(Returns) = 1
                   /\ EndsSyscall(p)
                   /\ syscalls_in_progress_[p] # NoSyscall
                   /\ \A i \in Returns :
                        calls'[i].a = syscalls_in_progress_[p]
                   /\ syscalls_in_progress_'[p] = NoSyscall
             /\ (/\ syscalls_in_progress_[p] # NoSyscall
                 /\ syscalls_in_progress_'[p] # syscalls_in_progress_[p]) =>
                   (Returns # {} \/ TerminatesFirst(p))
             /\ (EndsSyscall(p) /\ syscalls_in_progress_[p] # NoSyscall) =>
                   (Returns # {} \/ TerminatesFirst(p)) ]_vars

\* C13: InitPtraceAttach never reports success for a partially attached
\* sandboxee, whatever threads start and exit meanwhile: when it returns true
\* every task of the task list read again is seized and is one of the tasks
\* attached, and Run goes on to its main loop with no Result; when it returns
\* false the run ends with SETUP_ERROR / FAILED_PTRACE.
C13_NoPartialAttach ==
  /\ attach.apc = "true" =>
       /\ attach.tasks \subseteq attach.seized
       /\ attach.tasks = attach.tasks_attached
  /\ (attach.apc = "returned" /\ pc = "loop") =>
       /\ attach.tasks \subseteq attach.seized
       /\ attach.tasks = attach.tasks_attached
       /\ result_ = UnsetResult
  /\ (attach.apc = "returned" /\ pc = "done") =>
       /\ result_.final_status = "SETUP_ERROR"
       /\ \/ result_.reason_code = Sub("FAILED_PTRACE")
          \/ /\ result_.reason_code = Sub("FAILED_SIGNALS")
             /\ attach.deadline = 0
  /\ attach.apc = "false" => pc = "start"

\* The attach succeeds on three tasks, one of them started meanwhile.
C13_Witness ==
  /\ attach.apc = "returned"
  /\ pc = "loop"
  /\ Cardinality(attach.tasks) = 3

\* A pass of the retry loop has ended with tasks that gave EPERM.
PassEndsWithTasksLeft ==
  /\ attach.apc = "seize"
  /\ attach.todo = {}
  /\ attach.tasks_left # {}

\* C14: a PTRACE_SEIZE that fails with EPERM is tried again after a backoff
\* for as long as the 2-second budget lasts: after a pass that left tasks
\* with EPERM, the attach fails only once the deadline is reached, and before
\* the deadline the tasks left are the tasks of the next pass.
C14_AsStated ==
  [][PassEndsWithTasksLeft =>
       /\ attach'.apc = "false" => attach.clock >= attach.deadline
       /\ (attach.clock < attach.deadline /\ attach'.todo # attach.todo) =>
            /\ attach'.apc = "seize"
            /\ attach'.todo = attach.tasks_left]_vars

\* The notification is issued when the setup ends, not before and not twice.
NotifiedOncePerPath == setup_notification_ = IF pc = "start" THEN 0 ELSE 1

\* C15: the setup notification is issued exactly once per Run on every path
\* out of the setup (InitSetupSignals fails, InitPtraceAttach fails, or the
\* attach succeeds and the main loop begins): never before the setup ends,
\* once when it has ended, and the setup ends, so that RunInternal's wait for
\* the notification returns.
C15_AsStated ==
  /\ []NotifiedOncePerPath
  /\ <>(setup_notification_ = 1)

\* The monitor has acted on the kill request: SIGKILL has gone to the main
\* PID and the request is consumed.
KillActedOn ==
  /\ external_kill_
  /\ hist.sigkill_sent
  /\ external_kill_request_flag_

\* C16: a kill request made while the main loop runs is acted on within one
\* turn of the loop after the current wait.  The request stays in the flag
\* until the head of a turn reads it; from the wait or the dispatch the
\* monitor goes nowhere but to the head of the next turn; the head that finds
\* the request sends SIGKILL to the main PID, unless the Result is terminal
\* already or becomes so in that head; and the monitor gets there.
C16_KillWithinOneTurn ==
  /\ [][/\ (~external_kill_request_flag_ /\ external_kill_request_flag_')
             => (pc = "loop" /\ pc' # "loop")
        /\ (~external_kill_request_flag_ /\ pc = "wait")
             => pc' \in {"wait", "dispatch", "loop"}
        /\ (~external_kill_request_flag_ /\ pc = "dispatch")
             => pc' \in {"dispatch", "loop"}
        /\ (~external_kill_request_flag_ /\ pc = "loop" /\ pc' # "loop")
             => \/ ~LoopCondition
                \/ result_'.final_status # "UNSET"
                \/ KillActedOn']_vars
  /\ (InLoop /\ ~external_kill_request_flag_)
       ~> (KillActedOn \/ ~LoopCondition)

\* A request has been acted on: SIGKILL has gone to the main PID and the
\* loop goes on to the next wait.
C16_Witness ==
  /\ pc = "wait"
  /\ KillActedOn
  /\ result_.final_status = "UNSET"

\* The head of a turn finds a kill request after an earlier one was acted on.
RepeatedKill ==
  /\ pc = "loop" /\ pc' # "loop"
  /\ LoopCondition
  /\ KillRequested
  /\ external_kill_

\* C17: Kill() called several times gives the terminal Result of the one call
\* at the time of the first.  A call that finds the request still in the flag
\* changes nothing; a call after the request was acted on makes the head of a
\* turn run the handler again, and this run assigns no Result that a turn
\* without it would not assign: external_kill_ stays, the flag is set again,
\* and the Result is assigned only if the stack dump request of the same
\* head fails.
C17_AsStated ==
  [][RepeatedKill =>
       /\ external_kill_'
       /\ external_kill_request_flag_' \/ result_'.final_status # "UNSET"
       /\ result_'.final_status # "UNSET" =>
            result_'.reason_code = Sub("FAILED_INTERRUPT")]_vars

\* The head of a turn that goes on to the wait.
HeadPassed == pc = "loop" /\ pc' = "wait"

\* A request is made: a flag is cleared or a network violation recorded.
RequestMade ==
  \/ external_kill_request_flag_ /\ ~external_kill_request_flag_'
  \/ dump_stack_request_flag_ /\ ~dump_stack_request_flag_'
  \/ ~violation_occurred_ /\ violation_occurred_'

\* C18: the requests are edge-triggered.  The constructor leaves both flags
\* at 'no request'; only a request clears a flag or records a violation; the
\* kill handler, the stack dump handler and the network violation handler
\* fire only at the head of a turn and only on a request; the head that
\* reads the requests consumes them, however many were made since the last
\* head, so that the next head fires no handler unless a request is made
\* again; the network violation is handled once in a run.
C18_EdgeTriggered ==
  /\ [](pc = "start" =>
          /\ external_kill_request_flag_
          /\ dump_stack_request_flag_
          /\ ~violation_occurred_ /\ ~network_violation_
          /\ ~external_kill_ /\ ~should_dump_stack_)
  /\ [][/\ RequestMade => (nreqs' = nreqs + 1 /\ pc' = pc)
        /\ (~external_kill_ /\ external_kill_')
             => (pc = "loop" /\ ~external_kill_request_flag_)
        /\ (~should_dump_stack_ /\ should_dump_stack_')
             => (pc = "loop" /\ ~dump_stack_request_flag_)
        /\ (~network_violation_ /\ network_violation_')
             => (pc = "loop" /\ violation_occurred_)
        /\ network_violation_ => network_violation_'
        /\ HeadPassed =>
             /\ external_kill_request_flag_'
             /\ dump_stack_request_flag_'
             /\ ~external_kill_request_flag_ => external_kill_'
             /\ ~dump_stack_request_flag_ => should_dump_stack_'
             /\ (cfg.network_proxy_server_ /\ violation_occurred_)
                  => network_violation_'
             /\ (external_kill_request_flag_ /\ ~violation_occurred_)
                  => hist'.sigkill_sent = hist.sigkill_sent
             /\ dump_stack_request_flag_
                  => should_dump_stack_' = should_dump_stack_]_vars

\* One head has fired the kill handler and the stack dump handler, each on
\* its request, and has left both flags at 'no request'.
C18_Witness ==
  /\ pc = "wait"
  /\ external_kill_ /\ external_kill_request_flag_
  /\ should_dump_stack_ /\ dump_stack_request_flag_
  /\ hist.sigkill_sent

\* The main loop or the close-out loop calls pid_waiter.Wait.
WaitStep ==
  \/ pc = "wait" /\ pc' = "dispatch"
  \/ pc = "shutdown" /\ last' # last

\* The tasks whose status a refill gathers: those with a status for waitpid,
\* none once the main PID is reaped (its waitpid fails first).
Gathered ==
  IF task[main_pid].st = "gone" THEN {} ELSE {p \in Pids : Ready(task, p)}

MainPending ==
  \/ Ready(task, main_pid)
  \/ \E i \in 1..Len(statuses_) : statuses_[i][1] = main_pid

\* The main loop has been handed a status of the main PID.
MainDispatched == pc = "dispatch" /\ last.pid = main_pid

\* No starvation under the child storm: a pending status of the main PID is
\* handed to the main loop while it runs, a deadline that is due is acted on,
\* and a run with a wall-time limit ends.
NotStarved ==
  /\ (InLoop /\ MainPending) ~> (MainDispatched \/ ~InLoop)
  /\ (InLoop /\ DeadlineDue) ~> (timed_out_ \/ ~InLoop)
  /\ (deadline_millis_ # 0) ~> (pc = "done")

\* C20 as stated: no starvation, and the noisy sandboxee with a wall-time
\* limit ends in TIMEOUT.
C20_AsStated ==
  /\ NotStarved
  /\ [](pc = "done" /\ deadline_millis_ # 0
          => timed_out_ /\ HasStatus("TIMEOUT", Code(0)))


\* The hooks of Notify the handlers call.
NotifyHooks ==
  {"EventSignal", "EventSyscallTrace", "EventSyscallReturn",
   "EventSyscallViolation"}

\* The stop st with event message msg is a seccomp stop that bears no known
\* architecture.
UnknownArchStop(st, msg) ==
  /\ WIFSTOPPED(st) /\ WPTRACEEVENT(st) = PTRACE_EVENT_SECCOMP
  /\ (msg < kUnknown \/ msg > kMax)

\* The step dispatches a PTRACE_EVENT_EXIT stop of p whose event message
\* was read.
ExitEventStep(p) ==
  /\ DispatchStep /\ last.pid = p /\ WIFSTOPPED(last.status)
  /\ WPTRACEEVENT(last.status) = PTRACE_EVENT_EXIT
  /\ last'.o.gem = "ok"

\* C21: a PTRACE_EVENT_SECCOMP stop of p whose event message is no known
\* architecture is ignored: its dispatch changes neither the Result nor
\* syscalls_in_progress_, calls no hook of Notify and does not resume p;
\* p leaves that stop only by being killed, and the exit event of p is
\* processed as any other: the entry of p is dropped and either p is
\* continued or the handler sets the Result.
C21_UnknownArchIgnored ==
  [][ \A p \in Pids :
        /\ (/\ DispatchStep /\ last.pid = p
            /\ UnknownArchStop(last.status, task[p].msg)
            /\ last'.o.gem = "ok") =>
              /\ result_' = result_ /\ set_calls' = set_calls
              /\ syscalls_in_progress_' = syscalls_in_progress_
              /\ wait_for_execve_' = wait_for_execve_
              /\ \A i \in 1..Len(calls') :
                   calls'[i].op \notin NotifyHooks /\ ~IsContinuation(calls'[i])
        /\ (/\ task[p].st = "stopped" /\ task[p].reported
            /\ UnknownArchStop(task[p].ws, task[p].msg)
            /\ task'[p] # task[p]) =>
              /\ task'[p].killed
              /\ \/ task'[p] = [task[p] EXCEPT !.killed = TRUE]
                 \/ InExitStop(task'[p])
                 \/ task'[p].st = "zombie"
        /\ ExitEventStep(p) =>
              /\ syscalls_in_progress_'[p] = NoSyscall
              /\ \/ \E i \in 1..Len(calls') :
                      /\ calls'[i].op = "PTRACE_CONT"
                      /\ calls'[i].pid = p
                 \/ /\ set_calls' > set_calls
                    /\ result_'.final_status # "UNSET" ]_vars

\* An unknown-architecture seccomp stop of the main PID has been ignored.
C21_Witness ==
  /\ Dispatched /\ last.pid = main_pid
  /\ UnknownArchStop(last.status, last.msg) /\ last.o.gem = "ok"
  /\ result_.final_status = "UNSET" /\ calls = <<>>
  /\ task[main_pid].st = "stopped"

\* The step dispatches a seccomp stop of p that bears a known architecture
\* and whose event message was read: the handler fetches the registers.
SeccompFetchStep(p) ==
  /\ DispatchStep /\ last.pid = p /\ WIFSTOPPED(last.status)
  /\ WPTRACEEVENT(last.status) = PTRACE_EVENT_SECCOMP
  /\ ~UnknownArchStop(last.status, task[p].msg)
  /\ last'.o.gem = "ok"

\* C22: when Regs::Fetch answers NotFound at a seccomp stop of p,
\* EventPtraceSeccomp only warns: the Result stays UNSET, no hook of Notify
\* is called and no entry of syscalls_in_progress_ is made; any other
\* failure of the fetch makes the Result INTERNAL_ERROR/FAILED_FETCH.
C22_NotFoundOnlyWarns ==
  [][ \A p \in Pids :
        SeccompFetchStep(p) =>
          /\ last'.o.fetch = "NotFound" =>
                /\ result_' = result_ /\ result_'.final_status = "UNSET"
                /\ set_calls' = set_calls
                /\ syscalls_in_progress_' = syscalls_in_progress_
                /\ \A i \in 1..Len(calls') : calls'[i].op \notin NotifyHooks
          /\ last'.o.fetch \notin {"ok", "NotFound"} =>
                /\ result_'.final_status = "INTERNAL_ERROR"
                /\ result_'.reason_code = Sub("FAILED_FETCH")
                /\ syscalls_in_progress_' = syscalls_in_progress_
                /\ \A i \in 1..Len(calls') : calls'[i].op \notin NotifyHooks
    ]_vars

\* The main PID was gone when the registers of its seccomp stop were
\* fetched.
C22_Witness ==
  /\ Dispatched /\ last.pid = main_pid
  /\ WPTRACEEVENT(last.status) = PTRACE_EVENT_SECCOMP
  /\ last.msg = kX8664 /\ last.o.gem = "ok" /\ last.o.fetch = "NotFound"
  /\ result_.final_status = "UNSET" /\ calls = <<>>

\* The step dispatches a stop of p at which the handler fetches the
\* registers and Regs::Fetch answers NotFound: at a seccomp stop of a known
\* architecture, at a syscall-exit stop with an entry (Tolerant), or at an
\* exit event that is not a plain exit on the fast path (~Tolerant).
FetchGone(p, Tolerant) ==
  LET event == WPTRACEEVENT(last.status)
      msg == task[p].msg
  IN /\ DispatchStep /\ last.pid = p /\ WIFSTOPPED(last.status)
     /\ last'.o.gem = "ok" /\ last'.o.fetch = "NotFound"
     /\ IF Tolerant
          THEN \/ /\ event = PTRACE_EVENT_SECCOMP
                  /\ ~UnknownArchStop(last.status, msg)
               \/ /\ WSTOPSIG(last.status) = SIGTRAP + 128
                  /\ syscalls_in_progress_[p] # NoSyscall
          ELSE /\ event = PTRACE_EVENT_EXIT
               /\ ~(/\ WIFEXITED(msg)
                    /\ (~cfg.policy_.collect_stacktrace_on_exit_
                        \/ p # main_pid))
               /\ \/ WIFSIGNALED(msg) /\ WTERMSIG(msg) = SIGSYS
                  \/ p = main_pid
                  \/ cfg.log_all_stack_traces

\* The step dispatches a stop of p and PTRACE_GETEVENTMSG answers ESRCH.
EventMsgGone(p) ==
  /\ DispatchStep /\ last.pid = p /\ WIFSTOPPED(last.status)
  /\ last'.o.gem = "ESRCH"

\* The step dispatches a signal-delivery stop of p and the PTRACE_CONT that
\* answers it finds p gone (ESRCH).
ContinueGone(p) ==
  /\ DispatchStep /\ last.pid = p /\ WIFSTOPPED(last.status)
  /\ WPTRACEEVENT(last.status) = 0 /\ WSTOPSIG(last.status) # SIGTRAP + 128
  /\ task[p].st # "stopped"

\* The step is a turn's head at which kill(main_pid, SIGKILL) or
\* PTRACE_INTERRUPT fails: the main PID is gone.
HeadRequestGone == pc = "loop" /\ LoopCondition /\ pc' = "post"

WaitFailed ==
  DispatchStep /\ last.pid = -1 /\ last.errno # ECHILD

\* The step dispatches a stop at which PTRACE_GETEVENTMSG fails with an
\* errno other than ESRCH.
EventMsgFailed ==
  /\ DispatchStep /\ last.pid \in Pids /\ WIFSTOPPED(last.status)
  /\ last'.o.gem = "err"

\* The step dispatches a stop other than an exit event, and the
\* PTRACE_CONT, PTRACE_LISTEN or PTRACE_SYSCALL that answers it fails with an
\* errno other than ESRCH.
ContinuationFailed ==
  /\ DispatchStep /\ last.pid \in Pids /\ WIFSTOPPED(last.status)
  /\ WPTRACEEVENT(last.status) # PTRACE_EVENT_EXIT
  /\ \E i \in 1..Len(calls') :
       IsContinuation(calls'[i]) /\ calls'[i].x = "EIO"

\* The run has left its main loop with an internal error and the main PID
\* has been sent SIGKILL if it was still there.
KilledOnTheWayOut ==
  (/\ pc \in {"shutdown", "done"}
   /\ result_.final_status = "INTERNAL_ERROR"
   /\ ~sandboxee_exited) =>
    \/ task[main_pid].st \in {"zombie", "gone"}
    \/ task[main_pid].killed

\* C24 as stated: a failure of waitpid with an errno other than ECHILD, or
\* of PTRACE_CONT, PTRACE_LISTEN, PTRACE_SYSCALL or PTRACE_GETEVENTMSG with
\* an errno other than ESRCH, makes the Result INTERNAL_ERROR and ends the
\* main loop, and the main PID is sent SIGKILL before Run returns.
C24_AsStated ==
  [][ /\ (WaitFailed \/ EventMsgFailed \/ ContinuationFailed) =>
           /\ result_'.final_status = "INTERNAL_ERROR"
           /\ ~LoopCondition'
      /\ KilledOnTheWayOut' ]_vars

\* C24, amended: a PTRACE_GETEVENTMSG that fails with an errno other than
\* ESRCH makes the Result INTERNAL_ERROR/FAILED_GETEVENT and ends the main
\* loop, and so does a waitpid that fails with ECHILD (FAILED_CHILD); a
\* waitpid that fails with another errno and a PTRACE_CONT, PTRACE_LISTEN or
\* PTRACE_SYSCALL that fails with an errno other than ESRCH are logged and
\* leave the Result unchanged and the loop running; after an internal error
\* the main PID is sent SIGKILL before Run returns unless all stack traces
\* are to be logged.
C24_OnlyCheckedFailuresEnd ==
  [][ /\ EventMsgFailed =>
           /\ result_'.final_status = "INTERNAL_ERROR"
           /\ result_'.reason_code = Sub("FAILED_GETEVENT")
           /\ ~LoopCondition'
      /\ (DispatchStep /\ last.pid = -1 /\ last.errno = ECHILD) =>
           /\ result_'.final_status = "INTERNAL_ERROR"
           /\ result_'.reason_code = Sub("FAILED_CHILD")
           /\ ~LoopCondition'
      /\ (WaitFailed \/ ContinuationFailed) =>
           /\ result_' = result_ /\ set_calls' = set_calls
           /\ LoopCondition'
      /\ ~cfg.log_all_stack_traces => KilledOnTheWayOut' ]_vars

\* A PTRACE_GETEVENTMSG of the main PID has failed, the run has left its
\* main loop and the main PID has been killed.
C24_Witness ==
  /\ pc = "shutdown"
  /\ HasStatus("INTERNAL_ERROR", Sub("FAILED_GETEVENT"))
  /\ task[main_pid].st = "stopped" /\ task[main_pid].killed

\* The step is the end of the thread that started the sandbox.
StarterEndStep == attach.starter = "returned" /\ attach'.starter = "ended"

\* C25: every PTRACE_SEIZE is made by the monitor thread that RunInternal
\* creates, never by the thread that started the run; the end of the
\* starting thread leaves every task of the sandboxee as it is (no SIGKILL
\* by PTRACE_O_EXITKILL), and it does not touch the Result.
C25_StarterEndHarmless ==
  [][ /\ attach'.tracer \in {"none", "monitor"}
      /\ StarterEndStep =>
           /\ task' = task
           /\ result_' = result_ /\ pc' = pc ]_vars

\* The starting thread ended while the sandboxee was running, and the run
\* has ended with OK.
C25_Witness ==
  /\ pc = "done" /\ attach.starter = "ended" /\ attach.ended_live
  /\ attach.tracer = "monitor"
  /\ result_.final_status = "OK"

\* The step dispatches the termination status of the main PID.
MainDeathStep ==
  /\ DispatchStep /\ last.pid = main_pid
  /\ (WIFEXITED(last.status) \/ WIFSIGNALED(last.status))

\* The step is a turn of the close-out loop that reaps the main PID or
\* finds that waitpid fails.
MainReapedStep ==
  /\ pc = "shutdown" /\ last'.pid # 0
  /\ \/ last'.pid = -1
     \/ /\ last'.pid = main_pid /\ ~LogStackTraces
        /\ (WIFEXITED(last'.status) \/ WIFSIGNALED(last'.status))

\* C26: Run returns.  The dispatch of the main PID's termination status
\* makes the Result terminal, and the next head leaves the main loop; the
\* close-out loop ends at the turn that reaps the main PID or whose waitpid
\* fails; and once SIGKILL has been sent to the main PID or the Result is
\* terminal, Run comes to its end, whatever statuses and errors the waits
\* and requests give.
C26_RunReturns ==
  /\ [][ /\ MainDeathStep =>
              (result_'.final_status # "UNSET" /\ sandboxee_exited')
         /\ (pc = "loop" /\ ~LoopCondition) => pc' # "wait"
         /\ MainReapedStep => pc' = "done" ]_vars
  /\ (hist.sigkill_sent \/ result_.final_status # "UNSET") ~> pc = "done"

\* SIGKILL was sent to the main PID on an external kill, its death came
\* through the exit event, and Run has returned after the close-out loop.
C26_Witness ==
  /\ pc = "done" /\ hist.sigkill_sent
  /\ result_.final_status = "EXTERNAL_KILL"
  /\ ~sandboxee_exited

\* C27: kSandbox2ClientDone is sent at most once, and only when the init
\* process (if there is one) is seized and the task list read again equals
\* the tasks attached, all of them seized; an InitPtraceAttach that fails
\* has not sent it, and the main loop starts only after it was sent.
C27_DoneSentOnceAfterAttach ==
  [][ /\ attach'.send_tries <= 1 /\ attach'.sends <= attach'.send_tries
      /\ attach'.send_tries > attach.send_tries =>
           /\ attach.apc = "verify" /\ attach.init_seized
           /\ attach.tasks_attached = ListOfTasks
           /\ ListOfTasks \subseteq attach.seized
      /\ attach'.apc = "false" => attach'.sends = 0
      /\ result_'.final_status = "SETUP_ERROR" => attach'.sends = 0
      /\ pc' = "loop" => attach'.sends = 1 ]_vars

\* The main loop starts after kSandbox2ClientDone went out to a sandboxee
\* of two seized threads.
C27_Witness ==
  /\ pc = "loop" /\ attach.sends = 1 /\ attach.send_tries = 1
  /\ Cardinality(attach.tasks_attached) = 2
  /\ attach.tasks_attached \subseteq attach.seized

\* The step dispatches a fork, vfork or clone stop (NewProcess) or an exec
\* stop of p whose event message was read, with an entry of p pending.
PendingAtEvent(p, NewProc) ==
  /\ DispatchStep /\ last.pid = p /\ WIFSTOPPED(last.status)
  /\ last'.o.gem = "ok"
  /\ syscalls_in_progress_[p] # NoSyscall
  /\ IF NewProc
       THEN WPTRACEEVENT(last.status) \in
              {PTRACE_EVENT_FORK, PTRACE_EVENT_VFORK, PTRACE_EVENT_CLONE}
       ELSE WPTRACEEVENT(last.status) = PTRACE_EVENT_EXEC

\* The step calls EventSyscallReturn for the entry of p, with the value x,
\* and removes the entry.
ClosedOut(p, x) ==
  /\ \E i \in 1..Len(calls') :
       /\ calls'[i].op = "EventSyscallReturn" /\ calls'[i].pid = p
       /\ calls'[i].a = syscalls_in_progress_[p] /\ calls'[i].x = x
  /\ syscalls_in_progress_'[p] = NoSyscall

\* C28 as stated: at every fork, vfork or clone stop and at every exec stop
\* of p, the first exec event included, a pending entry of p is closed out:
\* EventSyscallReturn is called for it (with the event message, the new
\* PID, respectively with 0) and the entry is removed; an entry whose
\* system call is not of the expected family makes the Result
\* INTERNAL_ERROR/FAILED_INSPECT instead.
C28_AsStated ==
  [][ \A p \in Pids :
        /\ PendingAtEvent(p, TRUE) =>
             IF syscalls_in_progress_[p] \in
                  {NR_clone, NR_clone3, NR_fork, NR_vfork}
               THEN ClosedOut(p, "event_msg")
               ELSE /\ result_'.final_status = "INTERNAL_ERROR"
                    /\ result_'.reason_code = Sub("FAILED_INSPECT")
        /\ PendingAtEvent(p, FALSE) =>
             IF syscalls_in_progress_[p] \in {NR_execve, NR_execveat}
               THEN ClosedOut(p, "0")
               ELSE /\ result_'.final_status = "INTERNAL_ERROR"
                    /\ result_'.reason_code = Sub("FAILED_INSPECT") ]_vars

\* The step dispatches a PTRACE_EVENT_EXEC stop whose event message was
\* read: EventPtraceExec handles it.
ExecHandled ==
  /\ DispatchStep /\ last.pid \in Pids /\ WIFSTOPPED(last.status)
  /\ WPTRACEEVENT(last.status) = PTRACE_EVENT_EXEC
  /\ last'.o.gem = "ok"

\* C29: IsActivelyMonitoring starts as the negation of the executor's
\* enable_sandboxing_pre_execve_, becomes true exactly at the first
\* PTRACE_EVENT_EXEC the monitor handles, and never becomes false again.
C29_MonitoringMonotonic ==
  /\ [](pc = "start" => wait_for_execve_ = cfg.enable_sandboxing_pre_execve_)
  /\ [][ /\ ~wait_for_execve_ => ~wait_for_execve_'
         /\ (wait_for_execve_ /\ ~wait_for_execve_') => ExecHandled
         /\ ExecHandled => ~wait_for_execve_' ]_vars

\* The monitor that waited for the execve has handled the exec event of
\* the main PID.
C29_Witness ==
  /\ Dispatched /\ last.pid = main_pid
  /\ WPTRACEEVENT(last.status) = PTRACE_EVENT_EXEC /\ last.o.gem = "ok"
  /\ cfg.enable_sandboxing_pre_execve_ /\ ~wait_for_execve_

\* The step dispatches a seccomp stop of the host architecture whose
\* registers were fetched: ActionProcessSyscall decides on the call.
SyscallTrapped(p) ==
  /\ DispatchStep /\ last.pid = p /\ WIFSTOPPED(last.status)
  /\ WPTRACEEVENT(last.status) = PTRACE_EVENT_SECCOMP
  /\ task[p].msg = kX8664
  /\ last'.o.gem = "ok" /\ last'.o.fetch = "ok"

\* The calls the step makes after the stack dump that a DumpStack() request
\* asked for.
HandlerCalls ==
  SelectSeq(calls', LAMBDA c : c.op # "GetStackTrace")

\* What ActionProcessSyscall does with the trapped call of p: an execveat
\* is resumed with PTRACE_CONT without consulting Notify::EventSyscallTrace
\* only while the monitor waits for the execve; every other trapped call is
\* put to EventSyscallTrace: kAllow resumes with PTRACE_CONT,
\* kInspectAfterReturn enters the call in syscalls_in_progress_ and resumes
\* with PTRACE_SYSCALL, and kDeny is a violation, whatever the flags
\* (Hatches false) or unless the log file or permit_all lets the call pass
\* with PTRACE_CONT (Hatches true).
TraceDecides(p, Hatches) ==
  LET nr == last'.o.nr
      answer == last'.o.trace
      cs == HandlerCalls
      pass == Hatches /\ (cfg.log_file_ \/ cfg.permit_all)
  IN IF wait_for_execve_ /\ nr = NR_execveat
       THEN /\ Len(cs) = 1
            /\ cs[1].op = "PTRACE_CONT" /\ cs[1].pid = p
            /\ UNCHANGED <<result_, syscalls_in_progress_>>
       ELSE /\ Len(cs) >= 2
            /\ cs[1].op = "EventSyscallTrace" /\ cs[1].pid = p
            /\ cs[1].a = nr /\ cs[1].x = answer
            /\ (answer = "kAllow" \/ (answer = "kDeny" /\ pass)) =>
                 /\ Len(cs) = 2 /\ cs[2].op = "PTRACE_CONT"
                 /\ UNCHANGED <<result_, syscalls_in_progress_>>
            /\ answer = "kInspectAfterReturn" =>
                 /\ Len(cs) = 2 /\ cs[2].op = "PTRACE_SYSCALL"
                 /\ syscalls_in_progress_' =
                      [syscalls_in_progress_ EXCEPT ![p] = nr]
                 /\ result_' = result_
            /\ (answer = "kDeny" /\ ~pass) =>
                 /\ cs[2].op = "EventSyscallViolation"
                 /\ result_'.final_status = "VIOLATION"
                 /\ result_'.reason_code = Code(nr)
                 /\ \A i \in 1..Len(cs) : ~IsContinuation(cs[i])

\* C30 as stated: only while the monitor waits for the execve is a trapped
\* execveat resumed with PTRACE_CONT without consulting
\* Notify::EventSyscallTrace; once IsActivelyMonitoring is true every
\* trapped system call, execveat included, is decided by Notify: kAllow ->
\* PTRACE_CONT, kInspectAfterReturn -> table insert and PTRACE_SYSCALL,
\* kDeny -> violation.
C30_AsStated ==
  [][ \A p \in Pids : SyscallTrapped(p) => TraceDecides(p, FALSE) ]_vars

\* C30, amended: as stated, except that a kDeny is a violation only when
\* neither the log file nor permit_all is set; with one of them the call is
\* resumed with PTRACE_CONT.
C30_TraceUnlessWaitingExecveat ==
  [][ \A p \in Pids : SyscallTrapped(p) => TraceDecides(p, TRUE) ]_vars

\* A trapped execveat of the main PID was put to EventSyscallTrace by the
\* actively monitoring monitor and is inspected after its return.
C30_Witness ==
  /\ Dispatched /\ last.pid = main_pid
  /\ WPTRACEEVENT(last.status) = PTRACE_EVENT_SECCOMP /\ last.msg = kX8664
  /\ last.o.gem = "ok" /\ last.o.fetch = "ok" /\ last.o.nr = NR_execveat
  /\ ~wait_for_execve_
  /\ \E i \in CallsOf("EventSyscallTrace") :
       calls[i].a = NR_execveat /\ calls[i].x = "kInspectAfterReturn"
  /\ syscalls_in_progress_[main_pid] = NR_execveat

\* The last Wait of the main loop returned -1 with errno ECHILD.
ChildLost == last.pid = -1 /\ last.errno = ECHILD

\* C31: when PidWaiter::Wait returns -1 with ECHILD in the main loop, the
\* turn that dispatches it makes the Result INTERNAL_ERROR/FAILED_CHILD, and
\* the next step Run takes leaves the main loop.
C31_ChildLossEndsLoop ==
  [][ /\ (DispatchStep /\ ChildLost) =>
           /\ result_.final_status = "UNSET"
           /\ HasStatus("INTERNAL_ERROR", Sub("FAILED_CHILD"))'
           /\ pc' = "loop" /\ ChildLost'
      /\ (pc = "loop" /\ ChildLost /\ pc' # pc) => pc' = "post" ]_vars

\* The main loop has dispatched a Wait that failed with ECHILD while the
\* main PID was never seen to exit.
C31_Witness ==
  /\ pc = "loop" /\ ChildLost
  /\ HasStatus("INTERNAL_ERROR", Sub("FAILED_CHILD"))
  /\ ~sandboxee_exited

\* The step is a turn of the close-out loop that got an answer from Wait.
ShutdownServices ==
  Shutdown /\ ~(UNCHANGED <<statuses_, last_errno_, task, last, calls>>)

\* The Result is not OK and all stack traces are to be logged.
AllTracesLogged == cfg.log_all_stack_traces /\ result_.final_status # "OK"

\* The step services a PTRACE_EVENT_EXIT stop and resumes it with
\* PTRACE_CONT, and the close-out goes on.
ExitStopsResumed ==
  (/\ ShutdownServices /\ last'.pid \in Pids /\ WIFSTOPPED(last'.status)
   /\ WPTRACEEVENT(last'.status) = PTRACE_EVENT_EXIT) =>
    /\ \E i \in 1..Len(calls') :
         /\ calls'[i].op = "PTRACE_CONT" /\ calls'[i].pid = last'.pid
         /\ calls'[i].a = 0
    /\ pc' = "shutdown"

\* The step services a termination status of the main PID.
MainReapedInShutdown ==
  /\ ShutdownServices /\ last'.pid = main_pid
  /\ (WIFEXITED(last'.status) \/ WIFSIGNALED(last'.status))

\* The main PID has been sent SIGKILL, or is no more.
MainKilled ==
  task[main_pid].killed \/ task[main_pid].st \in {"zombie", "gone"}

\* C32 as stated: the close-out services wait events for a bounded window;
\* in it every PTRACE_EVENT_EXIT stop is resumed with PTRACE_CONT, the main
\* PID is sent SIGKILL again, and the phase ends as soon as the main PID's
\* termination status is reaped.
C32_AsStated ==
  /\ [][ /\ ExitStopsResumed
         /\ pc' = "shutdown" => MainKilled'
         /\ MainReapedInShutdown => pc' = "done" ]_vars
  /\ (pc = "shutdown") ~> (pc = "done")

\* C32, amended: the close-out services wait events for a bounded window;
\* in it every PTRACE_EVENT_EXIT stop is resumed with PTRACE_CONT; unless
\* the Result is not OK and all stack traces are to be logged, the main PID
\* is sent SIGKILL again and the phase ends as soon as the main PID's
\* termination status is reaped; when they are to be logged no SIGKILL is
\* sent and the phase goes on after that status.
C32_ShutdownWindow ==
  /\ [][ /\ ExitStopsResumed
         /\ (pc' = "shutdown" /\ ~AllTracesLogged') => MainKilled'
         /\ MainReapedInShutdown => (pc' = "done" <=> ~AllTracesLogged)
         /\ (AllTracesLogged /\ pc \in {"post", "shutdown"}) =>
              (task'[main_pid].killed => task[main_pid].killed) ]_vars
  /\ (pc = "shutdown") ~> (pc = "done")

\* The close-out has resumed an exit stop of a task other than the main PID
\* while the killed main PID is still to be reaped.
C32_Witness ==
  /\ pc = "shutdown" /\ ~AllTracesLogged
  /\ last.pid = other_pid /\ WIFSTOPPED(last.status)
  /\ WPTRACEEVENT(last.status) = PTRACE_EVENT_EXIT
  /\ Len(calls) = 1 /\ calls[1].op = "PTRACE_CONT"
  /\ task[main_pid].killed /\ task[main_pid].st # "gone"

\* The step dispatches a PTRACE_EVENT_EXIT stop of p whose event message
\* says that p is being killed by SIGSYS.
SeccompExitStep(p) ==
  /\ ExitEventStep(p)
  /\ WIFSIGNALED(last'.msg) /\ WTERMSIG(last'.msg) = SIGSYS

\* The Result is the violation of the system call read from the registers,
\* reported through the violation handler.
ViolationOf(p) ==
  /\ HasStatus("VIOLATION", Code(last.o.nr)) /\ result_.syscall = last.o.nr
  /\ \E i \in 1..Len(calls) :
       /\ calls[i].op = "EventSyscallViolation" /\ calls[i].pid = p
       /\ calls[i].a = last.o.nr /\ calls[i].x = "kSyscallViolation"

\* C33 as stated: a PTRACE_EVENT_EXIT stop whose exit status says killed by
\* SIGSYS goes through the violation handler: the Result becomes VIOLATION
\* with the system call read from the registers, whatever the network,
\* external-kill and timeout flags say.
C33_AsStated ==
  [][ \A p \in Pids :
        SeccompExitStep(p) => ViolationOf(p)' ]_vars

\* C33, amended: a PTRACE_EVENT_EXIT stop whose exit status says killed by
\* SIGSYS goes through the violation handler when its registers can be
\* fetched: the Result becomes VIOLATION with the system call read from
\* them, whatever the network, external-kill and timeout flags say; when
\* the fetch fails the Result becomes INTERNAL_ERROR/FAILED_FETCH.
C33_LateSeccompKill ==
  [][ \A p \in Pids :
        SeccompExitStep(p) =>
          IF last'.o.fetch = "ok"
            THEN ViolationOf(p)'
            ELSE HasStatus("INTERNAL_ERROR", Sub("FAILED_FETCH"))' ]_vars

\* The exit event of the main PID, killed by SIGSYS, has been dispatched
\* after an external kill was acted on, and the Result is the violation.
C33_Witness ==
  /\ Dispatched /\ last.pid = main_pid /\ WIFSTOPPED(last.status)
  /\ WPTRACEEVENT(last.status) = PTRACE_EVENT_EXIT
  /\ last.o.gem = "ok" /\ last.o.fetch = "ok"
  /\ WIFSIGNALED(last.msg) /\ WTERMSIG(last.msg) = SIGSYS
  /\ external_kill_
  /\ ViolationOf(main_pid)

\* The step is the head of a turn that finds a stack dump request and no
\* other cause to act on.
DumpOnlyHead ==
  /\ pc = "loop" /\ pc' # pc /\ LoopCondition
  /\ DumpStackRequested /\ ~DeadlineDue /\ ~KillRequested
  /\ ~(cfg.network_proxy_server_ /\ violation_occurred_
       /\ ~network_violation_)

\* The calls of the in-monitor stack dump among the calls of the last turn.
StackDumps == { i \in 1..Len(calls) : calls[i].op = "GetStackTrace" }

\* A stack dump is made at a ptrace-event or syscall-exit stop of the main
\* PID, once, on a request that it uses up.
DumpedOncePerRequest ==
  (DispatchStep /\ StackDumps' # {}) =>
    /\ Cardinality(StackDumps') = 1
    /\ last.pid = main_pid /\ WIFSTOPPED(last.status)
    /\ (WPTRACEEVENT(last.status) # 0
        \/ WSTOPSIG(last.status) = SIGTRAP + 128)
    /\ should_dump_stack_ /\ ~should_dump_stack_'

\* The stop that PTRACE_INTERRUPT puts a running task in is resumed with
\* PTRACE_CONT.
InterruptStopResumed ==
  (/\ DispatchStep /\ last.pid = main_pid
   /\ last.status = W_EVENT(SIGTRAP, PTRACE_EVENT_STOP)
   /\ last'.o.gem = "ok") =>
    /\ calls'[Len(calls')].op = "PTRACE_CONT"
    /\ calls'[Len(calls')].pid = main_pid
    /\ result_' = result_

\* The head that acts on the request alone leaves the kill and timeout
\* flags as they are.
DumpSetsNoKillFlag ==
  DumpOnlyHead =>
    /\ should_dump_stack_'
    /\ timed_out_' = timed_out_ /\ external_kill_' = external_kill_
    /\ network_violation_' = network_violation_
    /\ task'[main_pid].killed = task[main_pid].killed

\* C34 as stated: a dump-stack request makes the monitor interrupt the main
\* PID once and make at most one stack dump, at the next ptrace-event or
\* syscall-exit stop of the main PID; it sets none of the kill and timeout
\* flags, the stop caused by the interrupt is resumed with PTRACE_CONT, and
\* the Result is what it is without the request: acting on the request
\* leaves the Result unset and the main loop running.
C34_AsStated ==
  [][ /\ DumpedOncePerRequest
      /\ InterruptStopResumed
      /\ DumpSetsNoKillFlag
      /\ DumpOnlyHead => (result_' = result_ /\ pc' = "wait") ]_vars

\* The greatest key of map that is not above addr, MapEnd when there is none.
FloorKey(map, addr) ==
  LET le == { k \in DOMAIN map : k <= addr }
  IN IF le = {} THEN MapEnd ELSE MaxOf(le)

\* The floor lookup of addr: the symbol stored at addr, or the symbol of the
\* greatest key below addr with the offset of addr from it; the empty
\* string when that entry is empty or does not exist.
FloorSymbol(map, addr) ==
  LET k == FloorKey(map, addr)
  IN IF k = MapEnd THEN ""
     ELSE IF map[k] = "" THEN ""
     ELSE IF k = addr THEN DemangleSymbol(map[k])
     ELSE DemangleSymbol(map[k]) \o "+0x" \o Hex(addr - k)

\* A call of GetSymbolAt has returned.
SymbolLookedUp == unwind.op = "GetSymbolAt" /\ unwind.done

\* addr is neither at or below the first key of the map nor above its last.
InsideMap ==
  /\ LowerBound(unwind.map, unwind.addr) # MapEnd
  /\ LowerBound(unwind.map, unwind.addr) # MapBegin(unwind.map)

\* GetSymbolAt is the floor lookup for an address above the first key and
\* not above the last: elsewhere it returns the empty string.
FloorInsideMap ==
  SymbolLookedUp =>
    unwind.out = IF InsideMap THEN FloorSymbol(unwind.map, unwind.addr)
                 ELSE ""

\* C35 as stated: GetSymbolAt is the floor lookup of addr in the map, for
\* every map and address: the symbol stored at addr when addr is a key, else
\* symbol+0xOFFSET of the greatest key below addr, and the empty string
\* exactly when that entry is empty or does not exist.
C35_AsStated ==
  SymbolLookedUp => unwind.out = FloorSymbol(unwind.map, unwind.addr)

\* A call of LoadSymbolsMap has returned.
SymbolsLoaded == unwind.op = "LoadSymbolsMap" /\ unwind.done

\* The entry is an executable file-backed region.
Eligible(e) ==
  /\ e.is_executable /\ e.inode # 0 /\ e.path # ""
  /\ ~EndsWithDeleted(e.path)

\* The address the symbol sym of the file is placed at in the region e, or
\* MapEnd when it has no place there.
PlaceOf(e, sym) ==
  IF unwind.elf.position_independent
    THEN IF sym.address >= e.pgoff
            /\ sym.address < e.pgoff + (e.end - e.start)
           THEN sym.address + e.start - e.pgoff ELSE MapEnd
    ELSE IF sym.address >= e.start /\ sym.address < e.end
           THEN sym.address ELSE MapEnd

\* The regions and the symbols of the call.
Regions == { unwind.maps[i] : i \in 1..Len(unwind.maps) }

FileSymbols == { unwind.elf.symbols[i] : i \in 1..Len(unwind.elf.symbols) }

InRegion(addr) ==
  \E e \in Regions : Eligible(e) /\ e.start <= addr /\ addr < e.end

\* C36: for a sorted, non-overlapping list of maps entries the map built by
\* LoadSymbolsMap has every symbol of an executable file-backed region
\* inside that region's [start, end), a position-independent symbol relocated
\* by start - pgoff only when it falls in [pgoff, pgoff + (end - start)):
\* a key that holds a symbol is the place of that symbol in such a region,
\* every symbol that has a place in such a region is there, and GetSymbolAt
\* returns the empty string for every address outside all such regions.
C36_SymbolsStayInRegions ==
  SymbolsLoaded =>
    /\ \A k \in DOMAIN unwind.out :
         unwind.out[k] \in SymbolNames =>
           /\ InRegion(k)
           /\ \E e \in Regions, sym \in FileSymbols :
                /\ Eligible(e) /\ e.start <= k /\ k < e.end
                /\ sym.name = unwind.out[k] /\ PlaceOf(e, sym) = k
    /\ \A e \in Regions, sym \in FileSymbols :
         (Eligible(e) /\ PlaceOf(e, sym) # MapEnd) =>
           /\ e.start <= PlaceOf(e, sym) /\ PlaceOf(e, sym) < e.end
           /\ PlaceOf(e, sym) \in DOMAIN unwind.out
           /\ unwind.out[PlaceOf(e, sym)] \in SymbolNames
    /\ \A addr \in 0..(MaxMapAddr + 1) :
         ~InRegion(addr) => GetSymbolAt(unwind.out, addr) = ""

\* Two regions of a position-independent file with a gap between them, each
\* with a relocated symbol, and a symbol that has no place in either.
C36_Witness ==
  /\ SymbolsLoaded /\ Len(unwind.maps) = 2
  /\ \A e \in Regions : Eligible(e) /\ e.pgoff = 2
  /\ unwind.maps[1].end < unwind.maps[2].start
  /\ unwind.elf.position_independent
  /\ \E k \in DOMAIN unwind.out :
       unwind.out[k] \in SymbolNames /\ k > unwind.maps[1].start
  /\ \E sym \in FileSymbols : \A e \in Regions : PlaceOf(e, sym) = MapEnd
  /\ GetSymbolAt(unwind.out, unwind.maps[1].end) = ""

\* A call of RunLibUnwind has returned.
Unwound == unwind.op = "RunLibUnwind" /\ unwind.done

\* The frame pointer k links down the chain that starts at fp; 0 and Fault
\* end the chain.
RECURSIVE ChainAt(_, _, _)
ChainAt(mem, fp, k) ==
  IF k = 0 \/ fp = 0 \/ fp = Fault THEN fp
  ELSE ChainAt(mem, mem[fp].next, k - 1)

\* The frame-pointer walk over the memory of the call, from any frame
\* pointer and with any budget, returns at most the budget, and fewer only
\* when it has reached a zero frame pointer.
WalkStops ==
  \A fp \in 0..2, n \in 0..MaxFrames :
    LET r == UnwindUsingFramePointer(unwind.mem, n, fp)
    IN r.ok => /\ Len(r.ips) <= n
               /\ Len(r.ips) < n => ChainAt(unwind.mem, fp, Len(r.ips)) = 0

\* C37 as stated: RunLibUnwind never returns more than max_frames
\* instruction pointers, libunwind frames and frame-pointer frames together;
\* with max_frames = 0 it returns an empty list without error; the
\* frame-pointer walk stops at a zero frame pointer or when the remaining
\* budget is used up, even on a cyclic chain.
C37_AsStated ==
  Unwound =>
    /\ Len(unwind.out.ips) <= unwind.max_frames
    /\ unwind.max_frames = 0 => (unwind.out.ok /\ unwind.out.ips = <<>>)
    /\ WalkStops

\* C37, amended: RunLibUnwind never returns more than max_frames instruction
\* pointers, libunwind frames and frame-pointer frames together; when the
\* set-up of libunwind succeeds it returns without error, with an empty list
\* for max_frames = 0, and when the set-up fails it returns that error,
\* whatever max_frames is; the frame-pointer walk stops at a zero frame
\* pointer or when the remaining budget is used up, even on a cyclic chain.
C37_FramesWithinBudget ==
  Unwound =>
    /\ Len(unwind.out.ips) <= unwind.max_frames
    /\ unwind.out.ok <=> unwind.setup = "ok"
    /\ (unwind.max_frames = 0 /\ unwind.setup = "ok") =>
         unwind.out.ips = <<>>
    /\ WalkStops

\* libunwind gave one frame and the frame-pointer walk, on a chain that
\* runs in a circle, the rest of a budget of three.
C37_Witness ==
  /\ Unwound /\ unwind.setup = "ok" /\ unwind.max_frames = MaxFrames
  /\ Len(unwind.cursor) = 1 /\ unwind.cursor[1].fp = 1
  /\ unwind.mem[1].next = 2 /\ unwind.mem[2].next = 1
  /\ unwind.out.ok /\ Len(unwind.out.ips) = MaxFrames
  /\ unwind.out.ips[1] = 7 /\ unwind.out.ips[2] = 9

\* A termination status of the main PID has been reaped by a refill of
\* PidWaiter and waits in statuses_ behind the statuses handed out so far.
MainDeathQueued ==
  \E i \in 1..Len(statuses_) :
    /\ statuses_[i][1] = main_pid
    /\ WIFEXITED(statuses_[i][2]) \/ WIFSIGNALED(statuses_[i][2])

\* C38 as stated: KillSandboxee is never called for a main PID whose
\* termination status is reaped but not yet dispatched: the head of a turn
\* that finds a deadline or a Kill() due while that status is queued does not
\* end the run with INTERNAL_ERROR/FAILED_KILL.
C38_AsStated ==
  [][ (pc = "loop" /\ pc' # pc /\ LoopCondition /\ MainDeathQueued) =>
        ~HasStatus("INTERNAL_ERROR", Sub("FAILED_KILL"))' ]_vars


\* The step dispatches a termination status (WIFEXITED or WIFSIGNALED)
\* of p.
TerminationDispatched(p) ==
  /\ DispatchStep /\ last.pid = p
  /\ WIFEXITED(last.status) \/ WIFSIGNALED(last.status)

\* C39, as stated: after the monitor has dispatched a termination status
\* of PID p, syscalls_in_progress_ holds no entry for p, whether or not a
\* PTRACE_EVENT_EXIT stop of p was dispatched before.
C39_AsStated ==
  [][ \A p \in Pids :
        TerminationDispatched(p) => syscalls_in_progress_'[p] = NoSyscall ]_vars


\* The Result of the run that dispatches the PTRACE_EVENT_EXIT stop of the
\* main PID with the event message event_msg and, unless that ends the main
\* loop, the termination status the task then leaves, under a policy whose
\* collect_stacktrace_on_exit_ is on_exit.
ExitRun(on_exit, m, event_msg, o) ==
  LET m1 == EventPtraceExitWith(on_exit, m, main_pid, event_msg, o)
  IN IF m1.result_.final_status # "UNSET"
       THEN m1.result_
       ELSE LoopBody(m1, main_pid, event_msg, 0, 0, NoAnswer).result_

\* Two Results with the same final_status and reason_code.
SameOutcome(r1, r2) ==
  r1.final_status = r2.final_status /\ r1.reason_code = r2.reason_code

\* No request waits for the head of the next turn.
NoRequestPending ==
  /\ ~KillRequested /\ ~DumpStackRequested /\ ~DeadlineDue
  /\ ~(violation_occurred_ /\ ~network_violation_)

\* C40, as stated: the final_status and reason_code of a run do not depend
\* on collect_stacktrace_on_exit_: from the dispatch of an exit event of the
\* main PID on, the run with the flag set and the run with the flag unset
\* (same event, same termination status after it, the registers fetched,
\* no request pending) end with the same final_status and reason_code.
C40_AsStated ==
  [][ (/\ ExitEventStep(main_pid) /\ last'.o.fetch = "ok"
       /\ NoRequestPending) =>
        SameOutcome(ExitRun(TRUE, Mon, last'.msg, last'.o),
                    ExitRun(FALSE, Mon, last'.msg, last'.o)) ]_vars

=============================================================================
